---- MODULE Spec2Model ----
(***************************************************************************)
(* Neptune feed aggregator: the feed search and relevance-ranking engine   *)
(* of src/mcp-helpers.js (parseQuery, matchesTerm, levenshteinDistance,    *)
(* calculateRelevanceScore, searchCachedFeeds) over the cache store of     *)
(* src/lib/mcp-cache.js.                                                   *)
(*                                                                         *)
(* Strings are sequences of one-character strings, so that the regular     *)
(* expressions and the String methods of the source are computed           *)
(* character by character. Indices reported to the caller are 0-based as   *)
(* in JavaScript.                                                          *)
(*                                                                         *)
(* Relevance scores are held in half units (relevanceScore = 2 * the       *)
(* JavaScript number): the only fractional weight of the source is the     *)
(* 0.5 of a fuzzy source match, so every score is a multiple of 0.5 and    *)
(* the doubled value is an exact integer.                                  *)
(***************************************************************************)
EXTENDS Integers, Sequences, FiniteSets, TLC

(***************************************************************************)
(* Characters and String methods                                           *)
(***************************************************************************)
UpperCase == <<"A","B","C","D","E","F","G","H","I","J","K","L","M",
               "N","O","P","Q","R","S","T","U","V","W","X","Y","Z">>
LowerCase == <<"a","b","c","d","e","f","g","h","i","j","k","l","m",
               "n","o","p","q","r","s","t","u","v","w","x","y","z">>
Digits == {"0","1","2","3","4","5","6","7","8","9"}

\* \s of the regular expressions, on the characters the model uses
SpaceChars == {" ", "\t", "\n"}
IsSpace(c) == c \in SpaceChars

\* \w of the regular expressions: [A-Za-z0-9_]
WordChars ==
    {UpperCase[i] : i \in 1..26} \cup {LowerCase[i] : i \in 1..26} \cup Digits \cup {"_"}
IsWordChar(c) == c \in WordChars

LowerOf == [c \in {UpperCase[i] : i \in 1..26} |->
               LowerCase[CHOOSE i \in 1..26 : UpperCase[i] = c]]

\* three characters outside ASCII, held by their code points: the micro sign
\* and the Greek small letter mu are two lower-case letters with the same
\* upper case, the Greek capital letter mu
MicroSign == "U+00B5"
GreekSmallMu == "U+03BC"
GreekCapitalMu == "U+039C"

CharToLower(c) ==
    IF c \in DOMAIN LowerOf THEN LowerOf[c]
    ELSE IF c = GreekCapitalMu THEN GreekSmallMu
    ELSE c

\* the case folding of a regular expression with the i flag and without the
\* u flag (Canonicalize): the upper case of the character
Canonicalize(c) ==
    IF \E i \in 1..26 : LowerCase[i] = c
    THEN UpperCase[CHOOSE i \in 1..26 : LowerCase[i] = c]
    ELSE IF c \in {MicroSign, GreekSmallMu} THEN GreekCapitalMu
    ELSE c

\* String.prototype.toLowerCase
toLowerCase(s) == [i \in 1..Len(s) |-> CharToLower(s[i])]

SetMin(S) == CHOOSE x \in S : \A y \in S : x <= y
SetMax(S) == CHOOSE x \in S : \A y \in S : x >= y
Min2(a, b) == IF a <= b THEN a ELSE b
Max2(a, b) == IF a >= b THEN a ELSE b

\* s.substring(from, to) with 0-based from (inclusive) and to (exclusive)
substring(s, from, to) == SubSeq(s, from + 1, to)

\* the 0-based positions at or after `from` where t occurs in s
Occurrences(s, t, from) ==
    {i \in from..(Len(s) - Len(t)) : SubSeq(s, i + 1, i + Len(t)) = t}

\* String.prototype.indexOf(t, from): first occurrence or -1
indexOfFrom(s, t, from) ==
    IF Occurrences(s, t, from) = {} THEN -1 ELSE SetMin(Occurrences(s, t, from))

indexOf(s, t) == indexOfFrom(s, t, 0)

\* String.prototype.includes
includes(s, t) == indexOf(s, t) >= 0

\* s.replace(t, '') with a string pattern: the first occurrence is removed
replaceFirst(s, t) ==
    IF indexOf(s, t) < 0 THEN s
    ELSE substring(s, 0, indexOf(s, t)) \o substring(s, indexOf(s, t) + Len(t), Len(s))

\* String.prototype.trim
trim(s) ==
    LET NonSpace == {i \in 1..Len(s) : ~IsSpace(s[i])}
    IN  IF NonSpace = {} THEN <<>> ELSE SubSeq(s, SetMin(NonSpace), SetMax(NonSpace))

\* the end (exclusive, 0-based) of the run of characters satisfying the
\* class that starts at 0-based position p (p itself when the run is empty)
RECURSIVE SpaceRunEnd(_, _)
SpaceRunEnd(s, p) ==
    IF p < Len(s) /\ IsSpace(s[p + 1]) THEN SpaceRunEnd(s, p + 1) ELSE p

RECURSIVE NonSpaceRunEnd(_, _)
NonSpaceRunEnd(s, p) ==
    IF p < Len(s) /\ ~IsSpace(s[p + 1]) THEN NonSpaceRunEnd(s, p + 1) ELSE p

\* text.split(/\s+/): the pieces between maximal whitespace runs; a leading
\* or trailing run leaves an empty piece, the empty string gives [""]
RECURSIVE splitSpacesFrom(_, _)
splitSpacesFrom(s, p) ==
    LET e == NonSpaceRunEnd(s, p)
    IN  IF e >= Len(s) THEN <<substring(s, p, Len(s))>>
        ELSE <<substring(s, p, e)>> \o splitSpacesFrom(s, SpaceRunEnd(s, e))

splitSpaces(s) == splitSpacesFrom(s, 0)

(***************************************************************************)
(* levenshteinDistance (mcp-helpers.js:308-339)                            *)
(***************************************************************************)
Min3(a, b, c) == Min2(a, Min2(b, c))

\* matrix[0]: matrix[0][j] = j for j in 0..len1 (held at index j + 1)
LevFirstRow(len1) == [j \in 1..(len1 + 1) |-> j - 1]

\* matrix[i][0..j] for i >= 1, built left to right from matrix[i-1] (prev)
RECURSIVE LevRowUpTo(_, _, _, _, _)
LevRowUpTo(prev, str1, ch, i, j) ==
    IF j = 0 THEN <<i>>
    ELSE LET left == LevRowUpTo(prev, str1, ch, i, j - 1)
         IN  Append(left,
                    IF ch = str1[j]
                    THEN prev[j]
                    ELSE Min3(prev[j] + 1, left[j] + 1, prev[j + 1] + 1))

\* matrix[i] for i in 0..len2
RECURSIVE LevRow(_, _, _)
LevRow(str1, str2, i) ==
    IF i = 0 THEN LevFirstRow(Len(str1))
    ELSE LevRowUpTo(LevRow(str1, str2, i - 1), str1, str2[i], i, Len(str1))

levenshteinDistance(str1, str2) ==
    IF Len(str1) = 0 THEN Len(str2)
    ELSE IF Len(str2) = 0 THEN Len(str1)
    ELSE LevRow(str1, str2, Len(str2))[Len(str1) + 1]

(***************************************************************************)
(* matchesTerm (mcp-helpers.js:342-373)                                    *)
(***************************************************************************)
\* \b at 0-based position k of text: exactly one of the characters before
\* and after k is a word character (outside the string counts as non-word)
IsWordBoundary(text, k) ==
    LET before == k >= 1 /\ IsWordChar(text[k])
        after  == k < Len(text) /\ IsWordChar(text[k + 1])
    IN  before # after

\* new RegExp(`\\b${escaped termLower}\\b`, 'i').test(text): the escaped
\* term is matched literally, character by character under the case folding
\* of the i flag, between two word boundaries
wordBoundaryRegexTest(text, termLower) ==
    \E p \in 0..(Len(text) - Len(termLower)) :
        /\ \A k \in 1..Len(termLower) : Canonicalize(text[p + k]) = Canonicalize(termLower[k])
        /\ IsWordBoundary(text, p)
        /\ IsWordBoundary(text, p + Len(termLower))

NoMatch == [matched |-> FALSE, exact |-> FALSE, distance |-> -1]
ExactMatch == [matched |-> TRUE, exact |-> TRUE, distance |-> -1]
FuzzyMatch(d) == [matched |-> TRUE, exact |-> FALSE, distance |-> d]

\* the words of the fuzzy loop that pass the length test and are within
\* the tolerance, as 1-based positions in words
FuzzyHits(words, termLower, fuzzyTolerance) ==
    {k \in 1..Len(words) :
        /\ Len(words[k]) >= Len(termLower) - 2
        /\ Len(words[k]) <= Len(termLower) + 2
        /\ levenshteinDistance(termLower, words[k]) <= fuzzyTolerance}

\* the first word of the loop that qualifies decides (line 366)
firstFuzzyHit(words, termLower, hits) ==
    IF hits = {} THEN NoMatch
    ELSE FuzzyMatch(levenshteinDistance(termLower, words[SetMin(hits)]))

fuzzyMatchesWords(words, termLower, fuzzyTolerance) ==
    firstFuzzyHit(words, termLower, FuzzyHits(words, termLower, fuzzyTolerance))

fuzzyMatchesTerm(textLower, termLower, fuzzyTolerance) ==
    fuzzyMatchesWords(splitSpaces(textLower), termLower, fuzzyTolerance)

\* matchesTerm with the word-boundary test put in the place of the substring
\* test when useWordBoundary is set
matchesTermBoundaryFirst(text, term, useWordBoundary, fuzzyTolerance) ==
    LET textLower == toLowerCase(text)
        termLower == toLowerCase(term)
    IN  IF ~useWordBoundary /\ includes(textLower, termLower) THEN ExactMatch
        ELSE IF useWordBoundary /\ wordBoundaryRegexTest(text, termLower) THEN ExactMatch
        ELSE IF fuzzyTolerance > 0 THEN fuzzyMatchesTerm(textLower, termLower, fuzzyTolerance)
        ELSE NoMatch

matchesTerm(text, term, useWordBoundary, fuzzyTolerance) ==
    LET textLower == toLowerCase(text)
        termLower == toLowerCase(term)
    IN  IF includes(textLower, termLower) THEN ExactMatch
        ELSE IF useWordBoundary /\ wordBoundaryRegexTest(text, termLower) THEN ExactMatch
        ELSE IF fuzzyTolerance > 0 THEN fuzzyMatchesTerm(textLower, termLower, fuzzyTolerance)
        ELSE NoMatch

(***************************************************************************)
(* parseQuery (mcp-helpers.js:376-420)                                     *)
(***************************************************************************)
NoRegexMatch == [found |-> FALSE]

\* the next double quote at or after 0-based position p, or -1
NextQuote(s, p) ==
    LET Q == {i \in p..(Len(s) - 1) : s[i + 1] = "\""}
    IN  IF Q = {} THEN -1 ELSE SetMin(Q)

\* quoteRegex.exec(query) with lastIndex li, for /"([^"]+)"/g: the leftmost
\* quote at or after li that is closed by the next quote with at least one
\* character between them
quoteMatchAt(query, p, q) ==
    [found |-> TRUE,
     text |-> substring(query, p, q + 1),
     group1 |-> substring(query, p + 1, q),
     lastIndex |-> q + 1]

quoteMatchStarts(query, li) ==
    {p \in li..(Len(query) - 1) :
        query[p + 1] = "\"" /\ NextQuote(query, p + 1) >= p + 2}

firstQuoteMatch(query, starts) ==
    IF starts = {} THEN NoRegexMatch
    ELSE quoteMatchAt(query, SetMin(starts), NextQuote(query, SetMin(starts) + 1))

quoteRegexExec(query, li) == firstQuoteMatch(query, quoteMatchStarts(query, li))

\* the while loop of lines 384-387: exec runs over query, the matched text
\* is removed from currentQuery
RECURSIVE extractQuotedPhrases(_, _, _, _)
quoteLoopStep(query, quotedPhrases, currentQuery, match) ==
    IF ~match.found
    THEN [quotedPhrases |-> quotedPhrases, currentQuery |-> currentQuery]
    ELSE extractQuotedPhrases(query, match.lastIndex,
                              Append(quotedPhrases, match.group1),
                              replaceFirst(currentQuery, match.text))

extractQuotedPhrases(query, li, quotedPhrases, currentQuery) ==
    quoteLoopStep(query, quotedPhrases, currentQuery, quoteRegexExec(query, li))

FieldNames == <<"title", "description", "source">>
FieldNameChars ==
    [title |-> <<"t","i","t","l","e">>,
     description |-> <<"d","e","s","c","r","i","p","t","i","o","n">>,
     source |-> <<"s","o","u","r","c","e">>]

\* (title|description|source):([^\s]+) matches at 0-based position p with
\* field name f, ignoring case
FieldMatchesAt(s, p, f) ==
    LET n == Len(FieldNameChars[f])
    IN  /\ p + n + 1 < Len(s)
        /\ toLowerCase(substring(s, p, p + n)) = FieldNameChars[f]
        /\ s[p + n + 1] = ":"
        /\ ~IsSpace(s[p + n + 2])

\* fieldRegex.exec(s) with lastIndex li, for the /gi regex of line 390: the
\* search starts at lastIndex, which the loop carries over from the
\* previous match although the string it runs on has been shortened
fieldMatchAt(s, p, f, e) ==
    [found |-> TRUE,
     text |-> substring(s, p, e),
     field |-> f,
     term |-> substring(s, p + Len(FieldNameChars[f]) + 1, e),
     lastIndex |-> e]

fieldMatchOf(s, p, f) ==
    fieldMatchAt(s, p, f, NonSpaceRunEnd(s, p + Len(FieldNameChars[f]) + 1))

fieldMatchFrom(s, p) ==
    fieldMatchOf(s, p, FieldNames[CHOOSE k \in 1..3 : FieldMatchesAt(s, p, FieldNames[k])])

fieldMatchStarts(s, li) ==
    {p \in li..(Len(s) - 1) : \E k \in 1..3 : FieldMatchesAt(s, p, FieldNames[k])}

firstFieldMatch(s, starts) ==
    IF starts = {} THEN NoRegexMatch ELSE fieldMatchFrom(s, SetMin(starts))

fieldRegexExec(s, li) == firstFieldMatch(s, fieldMatchStarts(s, li))

\* the while loop of lines 391-398
RECURSIVE extractFieldQueries(_, _, _)
fieldLoopStep(currentQuery, fieldQueries, match) ==
    IF ~match.found
    THEN [fieldQueries |-> fieldQueries, currentQuery |-> currentQuery]
    ELSE extractFieldQueries(
             replaceFirst(currentQuery, match.text),
             match.lastIndex,
             [fieldQueries EXCEPT ![match.field] = Append(@, match.term)])

extractFieldQueries(currentQuery, li, fieldQueries) ==
    fieldLoopStep(currentQuery, fieldQueries, fieldRegexExec(currentQuery, li))

\* the keyword AND or OR, ignoring case, at 0-based position p: its length, or 0
KeywordLenAt(s, p, withAnd) ==
    IF withAnd /\ p + 3 <= Len(s) /\ toLowerCase(substring(s, p, p + 3)) = <<"a","n","d">>
    THEN 3
    ELSE IF p + 2 <= Len(s) /\ toLowerCase(substring(s, p, p + 2)) = <<"o","r">>
    THEN 2
    ELSE 0

\* \s+(?:AND|OR)\s+ (withAnd) or \s+OR\s+ matches starting at position p
SeparatorAt(s, p, withAnd) ==
    /\ p < Len(s)
    /\ IsSpace(s[p + 1])
    /\ LET k == SpaceRunEnd(s, p)
           n == KeywordLenAt(s, k, withAnd)
       IN  n > 0 /\ k + n < Len(s) /\ IsSpace(s[k + n + 1])

SeparatorEnd(s, p, withAnd) ==
    LET k == SpaceRunEnd(s, p)
    IN  SpaceRunEnd(s, k + KeywordLenAt(s, k, withAnd))

\* the test of line 401 taking either keyword for OR
hasOrTestEitherKeyword(currentQuery) ==
    \E p \in 0..(Len(currentQuery) - 1) : SeparatorAt(currentQuery, p, TRUE)

\* /\s+OR\s+/i.test(currentQuery)
hasOrTest(currentQuery) ==
    \E p \in 0..(Len(currentQuery) - 1) : SeparatorAt(currentQuery, p, FALSE)

\* currentQuery.split(/\s+(?:AND|OR)\s+/i), from 0-based position p
RECURSIVE splitAndOrFrom(_, _)
splitAndOrFrom(s, p) ==
    LET Starts == {q \in p..(Len(s) - 1) : SeparatorAt(s, q, TRUE)}
    IN  IF Starts = {} THEN <<substring(s, p, Len(s))>>
        ELSE <<substring(s, p, SetMin(Starts))>>
                 \o splitAndOrFrom(s, SeparatorEnd(s, SetMin(Starts), TRUE))

\* the pieces trimmed, with the filter of line 409 left out
trimAll(pieces) == [k \in 1..Len(pieces) |-> trim(pieces[k])]

\* .map(t => t.trim()).filter(t => t.length > 0)
RECURSIVE trimNonEmpty(_)
trimNonEmpty(pieces) ==
    IF pieces = <<>> THEN <<>>
    ELSE IF trim(Head(pieces)) = <<>> THEN trimNonEmpty(Tail(pieces))
    ELSE <<trim(Head(pieces))>> \o trimNonEmpty(Tail(pieces))

EmptyFieldQueries ==
    [title |-> <<>>, description |-> <<>>, source |-> <<>>, general |-> <<>>]

\* lines 414-419
parsedQueryOf(quotedPhrases, fieldQueries, terms, hasOr) ==
    [quotedPhrases |-> quotedPhrases,
     fieldQueries |-> [fieldQueries EXCEPT !.general = terms],
     logic |-> IF hasOr THEN "OR" ELSE "AND",
     allTerms |-> quotedPhrases \o terms \o fieldQueries.title
                      \o fieldQueries.description \o fieldQueries.source]

\* lines 400-412 on what the field loop left
parseLogicAndTerms(quotedPhrases, fields) ==
    parsedQueryOf(quotedPhrases, fields.fieldQueries,
                  trimNonEmpty(splitAndOrFrom(fields.currentQuery, 0)),
                  hasOrTest(fields.currentQuery))

\* lines 389-398 on what the quote loop left
parseFieldQueries(quoted) ==
    parseLogicAndTerms(quoted.quotedPhrases,
                       extractFieldQueries(quoted.currentQuery, 0, EmptyFieldQueries))

parseQuery(query) == parseFieldQueries(extractQuotedPhrases(query, 0, <<>>, query))

(***************************************************************************)
(* calculateRelevanceScore (mcp-helpers.js:423-515)                        *)
(***************************************************************************)
SearchFields == <<"title", "description", "source">>

\* const weights = { title: 3, description: 2, source: 1 } (line 433)
weights == [title |-> 3, description |-> 2, source |-> 1]

\* twice the multipliers of lines 462, 470, 478 (and 489, 496, 503):
\* match.exact ? 3 : 1, match.exact ? 2 : 1, match.exact ? 1 : 0.5
exactMultiplier2 == [title |-> 6, description |-> 4, source |-> 2]
fuzzyMultiplier2 == [title |-> 2, description |-> 2, source |-> 1]

\* twice the bonus factor of an exact phrase (lines 439, 445, 451)
phraseBonus2 == 20

\* twice weights[field] * (match.exact ? exact : fuzzy)
termScore2(field, match) ==
    weights[field] * (IF match.exact THEN exactMultiplier2[field]
                                     ELSE fuzzyMultiplier2[field])

InSeq(x, seq) == \E i \in 1..Len(seq) : seq[i] = x

\* if (!matchedFields.includes(f)) matchedFields.push(f)
pushIfAbsent(seq, x) == IF InSeq(x, seq) THEN seq ELSE Append(seq, x)

\* [...new Set(matchedFields)]: first occurrences, in order
RECURSIVE dedupe(_)
dedupe(seq) ==
    IF seq = <<>> THEN <<>>
    ELSE pushIfAbsent(dedupe(SubSeq(seq, 1, Len(seq) - 1)), seq[Len(seq)])

\* const matchPositions = { title: [], description: [], source: [] }
emptyMatchPositions == [title |-> <<>>, description |-> <<>>, source |-> <<>>]

\* the lower-cased fields of lines 428-430; a missing field reads as ''
lowerFields(item) ==
    [title |-> toLowerCase(item.title),
     description |-> toLowerCase(item.description),
     source |-> toLowerCase(item.source)]

\* phraseInField with one bonus for every field, that of the description
phraseInFieldFlatBonus(acc, text, f, phraseLower) ==
    IF includes(text[f], phraseLower)
    THEN [acc EXCEPT
            !.score = @ + weights.description * phraseBonus2,
            !.matchedFields = Append(@, f),
            !.matchPositions[f] =
                Append(@, <<indexOf(text[f], phraseLower),
                            indexOf(text[f], phraseLower) + Len(phraseLower)>>)]
    ELSE acc

\* one of the three if-blocks of lines 438-455, for field f
phraseInField(acc, text, f, phraseLower) ==
    IF includes(text[f], phraseLower)
    THEN [acc EXCEPT
            !.score = @ + weights[f] * phraseBonus2,
            !.matchedFields = Append(@, f),
            !.matchPositions[f] =
                Append(@, <<indexOf(text[f], phraseLower),
                            indexOf(text[f], phraseLower) + Len(phraseLower)>>)]
    ELSE acc

\* scorePhrase looking for the phrase as the query spells it, without the
\* toLowerCase of line 437
scorePhraseCaseSensitive(acc, text, phrase) ==
    phraseInField(phraseInField(phraseInField(acc, text, "title", phrase),
                                text, "description", phrase),
                  text, "source", phrase)

\* the body of the loop of lines 436-456 for one phrase
scorePhrase(acc, text, phrase) ==
    LET phraseLower == toLowerCase(phrase)
        a1 == phraseInField(acc, text, "title", phraseLower)
        a2 == phraseInField(a1, text, "description", phraseLower)
    IN  phraseInField(a2, text, "source", phraseLower)

RECURSIVE scorePhrases(_, _, _)
scorePhrases(acc, text, phrases) ==
    IF phrases = <<>> THEN acc
    ELSE scorePhrases(scorePhrase(acc, text, Head(phrases)), text, Tail(phrases))

\* the score update behind one matchesTerm test (lines 461-464, 469-472,
\* 477-480, 488-492, 495-499, 502-506)
applyMatch(acc, f, match) ==
    IF match.matched
    THEN [acc EXCEPT
            !.score = @ + termScore2(f, match),
            !.termMatched = TRUE,
            !.matchedFields = pushIfAbsent(@, f)]
    ELSE acc

\* one matchesTerm test of a term against field f with its score update
termInField(acc, text, f, term, useWordBoundary, fuzzyTolerance) ==
    applyMatch(acc, f, matchesTerm(text[f], term, useWordBoundary, fuzzyTolerance))

\* the loops of lines 459-481 over fieldQueries[f]
RECURSIVE scoreFieldTerms(_, _, _, _, _, _)
scoreFieldTerms(acc, text, f, terms, useWordBoundary, fuzzyTolerance) ==
    IF terms = <<>> THEN acc
    ELSE scoreFieldTerms(
             termInField(acc, text, f, Head(terms), useWordBoundary, fuzzyTolerance),
             text, f, Tail(terms), useWordBoundary, fuzzyTolerance)

\* scoreAllFieldTerms whose title loop reads the description
scoreAllFieldTermsTitleInDescription(acc, text, fieldQueries, useWordBoundary, fuzzyTolerance) ==
    scoreFieldTerms(
        scoreFieldTerms(
            scoreFieldTerms(acc, [text EXCEPT !.title = text.description], "title",
                            fieldQueries.title, useWordBoundary, fuzzyTolerance),
            text, "description", fieldQueries.description,
            useWordBoundary, fuzzyTolerance),
        text, "source", fieldQueries.source, useWordBoundary, fuzzyTolerance)

\* lines 459-481: the three loops, title, description, source
scoreAllFieldTerms(acc, text, fieldQueries, useWordBoundary, fuzzyTolerance) ==
    scoreFieldTerms(
        scoreFieldTerms(
            scoreFieldTerms(acc, text, "title", fieldQueries.title,
                            useWordBoundary, fuzzyTolerance),
            text, "description", fieldQueries.description,
            useWordBoundary, fuzzyTolerance),
        text, "source", fieldQueries.source, useWordBoundary, fuzzyTolerance)

\* scoreGeneralTerm that stops at the first field the term matches
scoreGeneralTermFirstField(acc, text, term, useWordBoundary, fuzzyTolerance) ==
    LET a0 == [acc EXCEPT !.termMatched = FALSE]
        a1 == termInField(a0, text, "title", term, useWordBoundary, fuzzyTolerance)
        a2 == termInField(a0, text, "description", term, useWordBoundary, fuzzyTolerance)
    IN  IF a1.termMatched THEN a1
        ELSE IF a2.termMatched THEN a2
        ELSE termInField(a0, text, "source", term, useWordBoundary, fuzzyTolerance)

\* the body of the loop of lines 484-512 for one general term, before the
\* test of line 509
scoreGeneralTerm(acc, text, term, useWordBoundary, fuzzyTolerance) ==
    termInField(
        termInField(
            termInField([acc EXCEPT !.termMatched = FALSE], text, "title", term,
                        useWordBoundary, fuzzyTolerance),
            text, "description", term, useWordBoundary, fuzzyTolerance),
        text, "source", term, useWordBoundary, fuzzyTolerance)

\* the loop of lines 484-512; line 509 leaves the function with the zero
\* result as soon as a term matched no field under AND logic
RECURSIVE scoreGeneralTerms(_, _, _, _, _, _)

\* afterGeneralTerm with the test of line 509 that forgets the logic: a
\* general term without a match ends the scoring with zero under OR as well
afterGeneralTermAnyLogic(a, text, terms, logic, useWordBoundary, fuzzyTolerance) ==
    IF ~a.termMatched
    THEN [a EXCEPT !.aborted = TRUE]
    ELSE scoreGeneralTerms(a, text, Tail(terms), logic, useWordBoundary, fuzzyTolerance)

\* afterGeneralTerm without the early return of lines 509-511
afterGeneralTermNoReturn(a, text, terms, logic, useWordBoundary, fuzzyTolerance) ==
    scoreGeneralTerms(a, text, Tail(terms), logic, useWordBoundary, fuzzyTolerance)

afterGeneralTerm(a, text, terms, logic, useWordBoundary, fuzzyTolerance) ==
    IF logic = "AND" /\ ~a.termMatched
    THEN [a EXCEPT !.aborted = TRUE]
    ELSE scoreGeneralTerms(a, text, Tail(terms), logic, useWordBoundary, fuzzyTolerance)

scoreGeneralTerms(acc, text, terms, logic, useWordBoundary, fuzzyTolerance) ==
    IF terms = <<>> THEN acc
    ELSE afterGeneralTerm(
             scoreGeneralTerm(acc, text, Head(terms), useWordBoundary, fuzzyTolerance),
             text, terms, logic, useWordBoundary, fuzzyTolerance)

\* return { score: 0, matchedFields: [], matchPositions: {} } (line 510)
zeroRelevance == [score |-> 0, matchedFields |-> <<>>, matchPositions |-> <<>>]

\* let score = 0; const matchedFields = []; const matchPositions = ...
initialRelevance ==
    [score |-> 0, matchedFields |-> <<>>, matchPositions |-> emptyMatchPositions,
     termMatched |-> FALSE, aborted |-> FALSE]

\* relevanceOf returning matchedFields as the loops left it, without the
\* Set of line 514
relevanceOfAsPushed(acc) ==
    IF acc.aborted THEN zeroRelevance
    ELSE [score |-> acc.score,
          matchedFields |-> acc.matchedFields,
          matchPositions |-> acc.matchPositions]

\* line 510 or line 514
relevanceOf(acc) ==
    IF acc.aborted THEN zeroRelevance
    ELSE [score |-> acc.score,
          matchedFields |-> dedupe(acc.matchedFields),
          matchPositions |-> acc.matchPositions]

scoreLowerFields(text, parsedQuery, useWordBoundary, fuzzyTolerance) ==
    relevanceOf(
        scoreGeneralTerms(
            scoreAllFieldTerms(
                scorePhrases(initialRelevance, text, parsedQuery.quotedPhrases),
                text, parsedQuery.fieldQueries, useWordBoundary, fuzzyTolerance),
            text, parsedQuery.fieldQueries.general, parsedQuery.logic,
            useWordBoundary, fuzzyTolerance))

calculateRelevanceScore(item, parsedQuery, useWordBoundary, fuzzyTolerance) ==
    scoreLowerFields(lowerFields(item), parsedQuery, useWordBoundary, fuzzyTolerance)

(***************************************************************************)
(* Dates: new Date(string) on the date strings of the model                *)
(***************************************************************************)
\* hours since 2026-02-26T00:00:00Z of the strings that parse as dates; a
\* date-only ISO string is UTC midnight
DateTable ==
    ("2026-02-26" :> 0) @@ ("2026-02-27" :> 24) @@ ("2026-02-28" :> 48) @@
    ("2026-02-26T10:00:00Z" :> 10) @@ ("2026-02-27T00:00:00Z" :> 24) @@
    ("2026-02-27T10:00:00Z" :> 34) @@ ("2026-02-28T00:00:00Z" :> 48) @@
    ("2026-02-28T10:00:00Z" :> 58)

InvalidDate == [valid |-> FALSE, time |-> 0]

\* new Date(s): an Invalid Date (time value NaN) for any other string
newDate(s) ==
    IF s \in DOMAIN DateTable THEN [valid |-> TRUE, time |-> DateTable[s]]
    ELSE InvalidDate

\* a < b and a > b on Date objects: false whenever a time value is NaN
dateLess(a, b) == a.valid /\ b.valid /\ a.time < b.time
\* dateGreater on the time values with NaN read as 0
dateGreaterNaNAsZero(a, b) == a.time > b.time

dateGreater(a, b) == a.valid /\ b.valid /\ a.time > b.time

\* the absent value of an optional string argument
null == "<null>"

\* the truthiness test of `dateFrom && ...`: null and '' are falsy
Truthy(v) == v # null /\ v # ""

(***************************************************************************)
(* LRUCache and the cache store (lib/mcp-cache.js)                         *)
(***************************************************************************)
\* new LRUCache(50) (mcp-cache.js:59)
parsedFeedCacheMaxSize == 50

\* the Map of the LRUCache is a sequence of [key, value] in insertion order
lruIndex(cache, key) ==
    IF \E i \in 1..Len(cache) : cache[i].key = key
    THEN CHOOSE i \in 1..Len(cache) : cache[i].key = key
    ELSE 0

lruHas(cache, key) == lruIndex(cache, key) > 0

lruRemoveAt(cache, i) == SubSeq(cache, 1, i - 1) \o SubSeq(cache, i + 1, Len(cache))

\* LRUCache.get that reads the value and leaves the entry where it is
lruGetInPlace(cache, key) ==
    [value |-> cache[lruIndex(cache, key)].value, cache |-> cache]

\* LRUCache.get of a present key: the value, the entry moved to the end
lruGet(cache, key) ==
    LET i == lruIndex(cache, key)
    IN  [value |-> cache[i].value,
         cache |-> Append(lruRemoveAt(cache, i), cache[i])]

\* LRUCache.set
lruSet(cache, key, value, maxSize) ==
    LET kept == IF lruHas(cache, key) THEN lruRemoveAt(cache, lruIndex(cache, key))
                ELSE IF Len(cache) >= maxSize THEN Tail(cache)
                ELSE cache
    IN  Append(kept, [key |-> key, value |-> value])

\* the names module.exports of lib/mcp-cache.js defines (lines 231-241)
mcpCacheExports ==
    {"writeMetadataIndex", "readMetadataIndex", "writeItemCache", "readItemCache",
     "getCachedParsedFeed", "clearAllCaches", "getCacheStats", "getItemCachePath",
     "getMetadataIndexPath"}

\* the methods class LRUCache defines (lines 16-56)
LRUCacheMethods == {"get", "set", "has", "clear", "size"}

\* the path of a feed's cached XML: cacheDir/<hex of url>.xml
xmlPath(url) == <<url, ".xml">>

\* readItemCache (lines 149-176): null when the file is missing, when it is
\* no JSON, or when the XML file is newer than cacheData.lastUpdated
readItemCache(files, feedUrl) ==
    LET f == files[feedUrl]
    IN  IF ~f.itemCache.exists THEN [isNull |-> TRUE, items |-> <<>>]
        ELSE IF ~f.itemCache.json THEN [isNull |-> TRUE, items |-> <<>>]
        ELSE IF f.xml.exists /\ f.xml.mtime > f.itemCache.lastUpdated
        THEN [isNull |-> TRUE, items |-> <<>>]
        ELSE [isNull |-> FALSE, items |-> f.itemCache.items]

nullFeed == [isNull |-> TRUE, items |-> <<>>]

\* lines 201-211 of getCachedParsedFeed with the parseFn of
\* mcp-helpers.js:170-229: the parsed feed is null when the XML parses
\* neither as it is nor sanitized, and only a non-null parse is cached
parseAndCache(files, cache, feedUrl) ==
    LET f == files[feedUrl]
    IN  IF ~f.xml.wellFormed THEN [parsedFeed |-> nullFeed, cache |-> cache]
        ELSE LET parsed == [isNull |-> FALSE, items |-> f.xml.items]
             IN  [parsedFeed |-> parsed,
                  cache |-> lruSet(cache, xmlPath(feedUrl),
                                   [parsedFeed |-> parsed, mtime |-> f.xml.mtime],
                                   parsedFeedCacheMaxSize)]

\* parseCachedFeed (mcp-helpers.js:163-234) over getCachedParsedFeed
\* (mcp-cache.js:184-212): the parsed feed and the LRU cache afterwards.
\* A stale entry reaches parsedFeedCache.delete (line 198); LRUCache
\* defines no delete, the call raises a TypeError, which the catch of
\* mcp-helpers.js:230 turns into null.
cachedOrParsed(files, got, feedUrl) ==
    IF files[feedUrl].xml.mtime = got.value.mtime
    THEN [parsedFeed |-> got.value.parsedFeed, cache |-> got.cache]
    ELSE IF "delete" \in LRUCacheMethods
    THEN parseAndCache(files,
                       lruRemoveAt(got.cache, lruIndex(got.cache, xmlPath(feedUrl))),
                       feedUrl)
    ELSE [parsedFeed |-> nullFeed, cache |-> got.cache]

parseCachedFeed(files, cache, feedUrl) ==
    IF ~files[feedUrl].xml.exists THEN [parsedFeed |-> nullFeed, cache |-> cache]
    ELSE IF lruHas(cache, xmlPath(feedUrl))
    THEN cachedOrParsed(files, lruGet(cache, xmlPath(feedUrl)), feedUrl)
    ELSE parseAndCache(files, cache, feedUrl)

\* getFeedItemsWithCache (mcp-helpers.js:243-260): the item cache when it
\* is fresh and non-empty, else the items extracted from parsedFeed, else null
feedInfoOf(itemCache, parsedFeed) ==
    IF ~itemCache.isNull /\ Len(itemCache.items) > 0
    THEN [isNull |-> FALSE, items |-> itemCache.items]
    ELSE IF ~parsedFeed.isNull
    THEN [isNull |-> FALSE, items |-> parsedFeed.items]
    ELSE nullFeed

getFeedItemsWithCache(files, feedUrl, parsedFeed) ==
    feedInfoOf(readItemCache(files, feedUrl), parsedFeed)

(***************************************************************************)
(* searchCachedFeeds (mcp-helpers.js:518-657): the per-feed pipeline       *)
(***************************************************************************)

\* slice0 cutting one element too late: slice(0, end + 1)
sliceOneMore(seq, end) ==
    IF end + 1 < 0 THEN SubSeq(seq, 1, Max2(Len(seq) + end + 1, 0))
    ELSE SubSeq(seq, 1, Min2(end + 1, Len(seq)))

\* Array.prototype.slice(0, end) for an integer end: a negative end counts
\* from the end of the array
slice0(seq, end) ==
    IF end < 0 THEN SubSeq(seq, 1, Max2(Len(seq) + end, 0))
    ELSE SubSeq(seq, 1, Min2(end, Len(seq)))


\* inDateRange with an exclusive upper bound: itemDate >= new Date(dateTo)
\* is dropped
inDateRangeExclusiveTo(item, dateFrom, dateTo) ==
    LET itemDate == newDate(item.pubDate)
    IN  IF Truthy(dateFrom) /\ dateLess(itemDate, newDate(dateFrom)) THEN FALSE
        ELSE IF Truthy(dateTo) /\ ~dateLess(itemDate, newDate(dateTo)) THEN FALSE
        ELSE TRUE

\* the filter callback of lines 582-587
inDateRange(item, dateFrom, dateTo) ==
    LET itemDate == newDate(item.pubDate)
    IN  IF Truthy(dateFrom) /\ dateLess(itemDate, newDate(dateFrom)) THEN FALSE
        ELSE IF Truthy(dateTo) /\ dateGreater(itemDate, newDate(dateTo)) THEN FALSE
        ELSE TRUE

\* lines 580-588
filterByDate(items, dateFrom, dateTo) ==
    LET Keep(item) == inDateRange(item, dateFrom, dateTo)
    IN  IF Truthy(dateFrom) \/ Truthy(dateTo) THEN SelectSeq(items, Keep) ELSE items

\* a title that is no string: the object xml2js gives for a title element
\* with attributes, which extractFeedItems stores as item.title unchanged
TitleObject == <<"[object Object]">>

\* line 428: (item.title || '').toLowerCase() raises a TypeError when the
\* title is an object
scorerThrows(item) == item.title = TitleObject

\* the object of lines 606-612
scoredItem(item, feedUrl, relevance) ==
    [item |-> item,
     feedUrl |-> feedUrl,
     relevanceScore |-> relevance.score,
     matchedFields |-> relevance.matchedFields,
     matchPositions |-> relevance.matchPositions]

\* the map callback of lines 592-613, before the test of line 601
scoreItem(item, feedUrl, parsedQuery, useWordBoundary, fuzzyTolerance) ==
    scoredItem(item, feedUrl,
               calculateRelevanceScore(item, parsedQuery, useWordBoundary, fuzzyTolerance))

\* line 601: the map callback returns null for a zero score under AND
mapsToNull(scored, logic) == logic = "AND" /\ scored.relevanceScore = 0

\* the filter of line 614
admitted(scored, logic) == ~mapsToNull(scored, logic) /\ scored.relevanceScore > 0

\* the comparator of line 615: b.relevanceScore - a.relevanceScore
compareScore(a, b) == b.relevanceScore - a.relevanceScore

\* new Date(b.pubDate) - new Date(a.pubDate) as the sort uses it: a NaN
\* result of the comparator counts as 0
compareDate(a, b) ==
    LET da == newDate(a.item.pubDate)
        db == newDate(b.item.pubDate)
    IN  IF da.valid /\ db.valid THEN db.time - da.time ELSE 0


\* compareScoreThenDate with the tie broken the other way round: oldest first
compareScoreThenOldest(a, b) ==
    IF b.relevanceScore # a.relevanceScore
    THEN b.relevanceScore - a.relevanceScore
    ELSE compareDate(b, a)

\* the comparator of lines 630-635
compareScoreThenDate(a, b) ==
    IF b.relevanceScore # a.relevanceScore
    THEN b.relevanceScore - a.relevanceScore
    ELSE compareDate(a, b)

compare(a, b, byDate) ==
    IF byDate THEN compareScoreThenDate(a, b) ELSE compareScore(a, b)

\* x put into a sorted sequence behind every element that does not have to
\* come after it
sortInsert(sorted, x, byDate) ==
    LET After == {i \in 1..Len(sorted) : compare(sorted[i], x, byDate) > 0}
        at    == IF After = {} THEN Len(sorted) + 1 ELSE SetMin(After)
    IN  SubSeq(sorted, 1, at - 1) \o <<x>> \o SubSeq(sorted, at, Len(sorted))

\* Array.prototype.sort with the comparator: the sort is stable
RECURSIVE sort(_, _)
sort(seq, byDate) ==
    IF seq = <<>> THEN <<>>
    ELSE sortInsert(sort(SubSeq(seq, 1, Len(seq) - 1), byDate), seq[Len(seq)], byDate)

\* lines 591-614: map and filter
admittedItems(items, feedUrl, parsedQuery, useWordBoundary, fuzzyTolerance) ==
    LET Admit(scored) == admitted(scored, parsedQuery.logic)
    IN  SelectSeq([i \in 1..Len(items) |->
                      scoreItem(items[i], feedUrl, parsedQuery,
                                useWordBoundary, fuzzyTolerance)],
                  Admit)

\* lines 591-616: map, filter, sort, slice
scoreFeedItems(items, feedUrl, parsedQuery, request) ==
    slice0(sort(admittedItems(items, feedUrl, parsedQuery,
                              request.useWordBoundary, request.fuzzyTolerance),
                FALSE),
           request.perFeedLimit)

\* the map of line 592 calls the scorer on every item: it raises when the
\* scorer raises on one of them
scoringThrows(items) == \E k \in 1..Len(items) : scorerThrows(items[k])

\* lines 591-622: the scored list, or [] from the catch of line 619 when
\* scoring raised
scoredOrCaught(items, feedUrl, parsedQuery, request) ==
    IF scoringThrows(items) THEN <<>>
    ELSE scoreFeedItems(items, feedUrl, parsedQuery, request)

\* lines 575-622 for a feedInfo that is not null
searchFeedInfo(feedInfo, cache, feedUrl, parsedQuery, request) ==
    [value |-> scoredOrCaught(filterByDate(feedInfo.items, request.dateFrom,
                                           request.dateTo),
                              feedUrl, parsedQuery, request),
     cache |-> cache]

\* lines 565-572 on the result of parseCachedFeed
searchParsedFeed(files, parsed, feedUrl, parsedQuery, request) ==
    IF parsed.parsedFeed.isNull THEN [value |-> <<>>, cache |-> parsed.cache]
    ELSE searchFeedInfo(getFeedItemsWithCache(files, feedUrl, parsed.parsedFeed),
                        parsed.cache, feedUrl, parsedQuery, request)

\* lines 560-573 on the result of the first getFeedItemsWithCache
searchFeed(files, cache, first, feedUrl, parsedQuery, request) ==
    IF first.isNull
    THEN searchParsedFeed(files, parseCachedFeed(files, cache, feedUrl),
                          feedUrl, parsedQuery, request)
    ELSE searchFeedInfo(first, cache, feedUrl, parsedQuery, request)

\* lines 554-622, the callback of chunk.map behind the cachePath of line
\* 553: the value its promise is fulfilled with and the LRU cache afterwards
processFeed(files, cache, feedUrl, parsedQuery, request) ==
    IF ~files[feedUrl].xml.exists THEN [value |-> <<>>, cache |-> cache]
    ELSE searchFeed(files, cache, getFeedItemsWithCache(files, feedUrl, nullFeed),
                    feedUrl, parsedQuery, request)

(***************************************************************************)
(* The strings of the model                                                *)
(***************************************************************************)
\* GIS mapping tools
TitleA1 ==
    <<"G","I","S"," ","m","a","p","p","i","n","g"," ","t","o","o","l","s">>

\* unrelated post
TitleA2 ==
    <<"u","n","r","e","l","a","t","e","d"," ","p","o","s","t">>

\* QGIS tips
TitleA3 ==
    <<"Q","G","I","S"," ","t","i","p","s">>

\* new GIS release
TitleB1 ==
    <<"n","e","w"," ","G","I","S"," ","r","e","l","e","a","s","e">>

\* QGIS 4 delayed
TitleB2 ==
    <<"Q","G","I","S"," ","4"," ","d","e","l","a","y","e","d">>

\* old gis news
TitleA0 ==
    <<"o","l","d"," ","g","i","s"," ","n","e","w","s">>

\* maps
DescMaps ==
    <<"m","a","p","s">>

\* Geo Blog
SourceA ==
    <<"G","e","o"," ","B","l","o","g">>

\* geoObserver
SourceB ==
    <<"g","e","o","O","b","s","e","r","v","e","r">>

\* Cadastre
SourceD ==
    <<"C","a","d","a","s","t","r","e">>

\* "GIS mapping"
QueryPhrase ==
    <<"\"","G","I","S"," ","m","a","p","p","i","n","g","\"">>

\* gis AND tools
QueryAnd ==
    <<"g","i","s"," ","A","N","D"," ","t","o","o","l","s">>

\* gis OR maps
QueryOr ==
    <<"g","i","s"," ","O","R"," ","m","a","p","s">>

\* title:QGIS AND source:geoObserver
QueryTitleAndSource ==
    <<"t","i","t","l","e",":","Q","G","I","S"," ","A","N","D"," ","s","o",
    "u","r","c","e",":","g","e","o","O","b","s","e","r","v","e","r">>

\* "GIS mapping" zebra
QueryPhraseAndMissing ==
    <<"\"","G","I","S"," ","m","a","p","p","i","n","g","\""," ","z","e","b",
    "r","a">>

\* title:QGIS gis
QueryFieldAndGeneral ==
    <<"t","i","t","l","e",":","Q","G","I","S"," ","g","i","s">>

\* "no such" OR gis
QueryPhraseOrGeneral ==
    <<"\"","n","o"," ","s","u","c","h","\""," ","O","R"," ","g","i","s">>

\* relese
QueryFuzzy ==
    <<"r","e","l","e","s","e">>

\* source:geoObserver
QuerySource ==
    <<"s","o","u","r","c","e",":","g","e","o","O","b","s","e","r","v","e",
    "r">>

\* "GIS" gis
QueryPhraseAndSameTerm ==
    <<"\"","G","I","S","\""," ","g","i","s">>

\* "g"
QueryShortPhrase ==
    <<"\"","g","\"">>

EmptyString == <<>>

(***************************************************************************)
(* Feeds, items and cache states the searches run on                       *)
(***************************************************************************)
FeedA == "https://a.example/feed"
FeedB == "https://b.example/feed"
FeedC == "https://c.example/feed"
FeedD == "https://d.example/feed"

\* feeds of the OPML file that the aggregator has not fetched yet
UncachedFeeds ==
    <<"https://u1.example/feed", "https://u2.example/feed", "https://u3.example/feed",
      "https://u4.example/feed", "https://u5.example/feed", "https://u6.example/feed",
      "https://u7.example/feed", "https://u8.example/feed">>

FeedUrls == {FeedA, FeedB, FeedC, FeedD} \cup {UncachedFeeds[k] : k \in 1..Len(UncachedFeeds)}

Item(title, description, source, pubDate, link) ==
    [title |-> title, description |-> description, source |-> source,
     pubDate |-> pubDate, link |-> link]

ItemA0 == Item(TitleA0, EmptyString, SourceA, "2026-02-26T10:00:00Z", "a0")
ItemA1 == Item(TitleA1, EmptyString, SourceA, "2026-02-27T00:00:00Z", "a1")
ItemA2 == Item(TitleA2, DescMaps, SourceA, "2026-02-28T00:00:00Z", "a2")
ItemA3 == Item(TitleA3, EmptyString, SourceA, "2026-02-28T10:00:00Z", "a3")
ItemB1 == Item(TitleB1, EmptyString, SourceB, "2026-02-27T00:00:00Z", "b1")
ItemB2 == Item(TitleB2, EmptyString, SourceB, "2026-02-26T10:00:00Z", "b2")
ItemD1 == Item(TitleObject, EmptyString, SourceD, "2026-02-27T10:00:00Z", "d1")

ItemsA == <<ItemA1, ItemA2, ItemA3>>
ItemsB == <<ItemB1, ItemB2>>

NoXml == [exists |-> FALSE, mtime |-> 0, wellFormed |-> FALSE, items |-> <<>>]
Xml(mtime, items) ==
    [exists |-> TRUE, mtime |-> mtime, wellFormed |-> TRUE, items |-> items]
BrokenXml(mtime) ==
    [exists |-> TRUE, mtime |-> mtime, wellFormed |-> FALSE, items |-> <<>>]

NoItemCache == [exists |-> FALSE, json |-> FALSE, lastUpdated |-> 0, items |-> <<>>]
ItemCache(lastUpdated, items) ==
    [exists |-> TRUE, json |-> TRUE, lastUpdated |-> lastUpdated, items |-> items]
CorruptItemCache ==
    [exists |-> TRUE, json |-> FALSE, lastUpdated |-> 0, items |-> <<>>]

Files(xmlA, cacheA, xmlB, cacheB) ==
    (FeedA :> [xml |-> xmlA, itemCache |-> cacheA]) @@
    (FeedB :> [xml |-> xmlB, itemCache |-> cacheB]) @@
    (FeedC :> [xml |-> NoXml, itemCache |-> NoItemCache]) @@
    (FeedD :> [xml |-> Xml(3, <<ItemD1>>), itemCache |-> NoItemCache]) @@
    [url \in {UncachedFeeds[k] : k \in 1..Len(UncachedFeeds)} |->
        [xml |-> NoXml, itemCache |-> NoItemCache]]

\* the entry a search leaves in the LRU cache after parsing a feed's XML
ParsedEntry(feedUrl, mtime, items) ==
    [key |-> xmlPath(feedUrl),
     value |-> [parsedFeed |-> [isNull |-> FALSE, items |-> items], mtime |-> mtime]]

\* A: XML only; B: fresh item cache
CachedAB ==
    [files |-> Files(Xml(3, ItemsA), NoItemCache, Xml(3, ItemsB), ItemCache(4, ItemsB)),
     cache |-> <<>>]

\* A: item cache older than the XML; B: XML that does not parse
StaleItemCache ==
    [files |-> Files(Xml(5, ItemsA), ItemCache(4, <<ItemA0>>), BrokenXml(3), NoItemCache),
     cache |-> <<>>]

\* A: item cache that is no JSON; B: broken XML behind a fresh item cache
CorruptFiles ==
    [files |-> Files(Xml(3, ItemsA), CorruptItemCache, BrokenXml(3), ItemCache(4, ItemsB)),
     cache |-> <<>>]

\* A: XML rewritten after an earlier search parsed it; B: XML only
RewrittenXml ==
    [files |-> Files(Xml(5, ItemsA), NoItemCache, Xml(3, ItemsB), NoItemCache),
     cache |-> <<ParsedEntry(FeedA, 3, <<ItemA0>>)>>]

\* the states of the cache directory and of the process a search starts
\* in; feed C is configured but was never cached, the one item of feed D
\* has a title element with an attribute
CacheStates == {CachedAB, StaleItemCache, CorruptFiles, RewrittenXml}

\* the configured feed lists (the OPML outlines in order); parseOPML keeps
\* every outline, also one that repeats a URL
FeedLists ==
    { <<>>, <<FeedA, FeedB>>, <<FeedA, FeedB, FeedA>>, <<FeedC, FeedB, FeedA>>,
      UncachedFeeds \o <<FeedA, FeedB, FeedD, FeedA>> }

\* what a search starts from: every feed list over the intact cache, and
\* the two-feed list over every cache state
Scenarios ==
    {[feeds |-> fl, state |-> CachedAB] : fl \in FeedLists}
        \cup {[feeds |-> <<FeedA, FeedB>>, state |-> c] : c \in CacheStates}

(***************************************************************************)
(* Requests                                                                *)
(***************************************************************************)
\* the defaults of lines 522-533
DefaultLimit == 20
DefaultPerFeedLimit == 10
DefaultFuzzyTolerance == 1

NoFeedUrls == [given |-> FALSE, urls |-> <<>>]
OnlyFeeds(urls) == [given |-> TRUE, urls |-> urls]

Request(query, limit, useWordBoundary, fuzzyTolerance, dateFrom, dateTo, feedUrls, perFeedLimit) ==
    [query |-> query, limit |-> limit, useWordBoundary |-> useWordBoundary,
     fuzzyTolerance |-> fuzzyTolerance, dateFrom |-> dateFrom, dateTo |-> dateTo,
     feedUrls |-> feedUrls, perFeedLimit |-> perFeedLimit]

Queries ==
    {QueryPhrase, QueryAnd, QueryOr, QueryTitleAndSource, QueryPhraseAndMissing,
     QueryFieldAndGeneral, QueryPhraseOrGeneral, QueryFuzzy, QuerySource,
     QueryPhraseAndSameTerm, QueryShortPhrase}

\* the largest limit and perFeedLimit a request asks for besides the defaults
MaxLimit == 2
MaxPerFeedLimit == 2

\* every query under every matching option, the other arguments at their
\* defaults
QueryRequests ==
    {Request(q, DefaultLimit, wb, ft, null, null, NoFeedUrls, DefaultPerFeedLimit) :
        q \in Queries, wb \in BOOLEAN, ft \in 0..2}

\* the caps and the feed filter; limit is any number the tool call passes,
\* a negative one included
CapRequests ==
    {Request(QueryOr, limit, TRUE, DefaultFuzzyTolerance, null, null, fu, pfl) :
        limit \in (-1..MaxLimit) \cup {DefaultLimit},
        fu \in {NoFeedUrls, OnlyFeeds(<<FeedA>>)},
        pfl \in (0..MaxPerFeedLimit) \cup {DefaultPerFeedLimit}}

\* the date window
DateRequests ==
    {Request(QueryOr, DefaultLimit, TRUE, DefaultFuzzyTolerance, df, dt,
             NoFeedUrls, DefaultPerFeedLimit) :
        df \in {null, "", "2026-02-27", "not-a-date"},
        dt \in {null, "2026-02-28", "not-a-date"}}

\* a fuzzyTolerance outside 0..2
FuzzyRequests ==
    {Request(q, DefaultLimit, TRUE, ft, null, null, NoFeedUrls, DefaultPerFeedLimit) :
        q \in {QueryOr, QueryFuzzy}, ft \in {-1, 3}}

Requests == QueryRequests \cup CapRequests \cup DateRequests \cup FuzzyRequests

(***************************************************************************)
(* searchCachedFeeds (mcp-helpers.js:518-657) as a state machine           *)
(***************************************************************************)
VARIABLES
    feedMetadata,     \* getFeedMetadata(opmlFile): the configured feed URLs
    cacheFiles,       \* the cache directory: per feed its XML and item cache
    parsedFeedCache,  \* the in-memory LRU cache of parsed feeds
    request,          \* the arguments of the search being served
    pc,               \* where the call of searchCachedFeeds stands
    parsedQuery,      \* const parsedQuery (line 536)
    feedsToSearch,    \* const feedsToSearch (line 540)
    feedChunks,       \* const feedChunks (line 546)
    chunkIndex,       \* the chunk the loop of line 551 is at
    chunkPromises,    \* const chunkPromises (line 552), one per feed of the chunk
    settled,          \* the tasks of the chunk in the order they settled
    results,          \* const results (line 537)
    returned,         \* the value the call returned
    previous,         \* the results of the call completed before this one
    searches,         \* the number of calls completed
    activeTransports, \* const activeTransports (app.js:648), a Map in insertion order
    connections,      \* the SSE connections established so far, by transport
    handed,           \* the messages handed to transport.handlePostMessage
    lastPost,         \* the latest POST and the response it got
    called,           \* the latest call of a helper: its arguments and its result
    lruCache,         \* this.cache of an LRUCache of its own (mcp-cache.js:19)
    lruMaxSize,       \* this.maxSize of that LRUCache (mcp-cache.js:18)
    lruLog,           \* the calls made on that LRUCache, with what they returned
    clock,            \* the wall clock, in milliseconds
    writeLog,         \* the writes to the cache directory, in the order they happened
    lastRead          \* the latest call of readItemCache and what it returned

searchVars == <<feedMetadata, cacheFiles, parsedFeedCache, request, pc, parsedQuery,
                feedsToSearch, feedChunks, chunkIndex, chunkPromises, settled,
                results, returned, previous, searches>>

sseVars == <<activeTransports, connections, handed, lastPost>>

lruVars == <<lruCache, lruMaxSize, lruLog>>

storeVars == <<clock, writeLog, lastRead>>

unitVars == <<called, lruVars, storeVars>>

vars == <<searchVars, sseVars, unitVars>>

\* no helper has been called on its own
NoCall == [fn |-> "none"]

\* no LRUCache of its own has been used
LruIdle ==
    /\ lruCache = <<>>
    /\ lruMaxSize = parsedFeedCacheMaxSize
    /\ lruLog = <<>>

NoRead == [feedUrl |-> null, isNull |-> TRUE, items |-> <<>>, seen |-> 0]

\* nothing has been written to the cache directory since the start
StoreIdle ==
    /\ clock = 0
    /\ writeLog = <<>>
    /\ lastRead = NoRead

UnitInit == called = NoCall /\ LruIdle /\ StoreIdle

NoPost ==
    [endpoint |-> "none", sessionId |-> null, sessions |-> <<>>, status |-> 0,
     error |-> "", handedTo |-> 0]

\* the server has started: no SSE connection, no POST yet
SseInit ==
    /\ activeTransports = <<>>
    /\ connections = <<>>
    /\ handed = <<>>
    /\ lastPost = NoPost

\* const concurrencyLimit = 10 (line 545)
concurrencyLimit == 10

\* the number of times the same request is served in a row
MaxSearches == 2

NoReturn == [returnedValue |-> FALSE]
NoPrevious == [completed |-> FALSE, results |-> <<>>]

\* lines 540-542
selectFeeds(metadata, feedUrls) ==
    LET Listed(url) == InSeq(url, feedUrls.urls)
    IN  IF feedUrls.given THEN SelectSeq(metadata, Listed) ELSE metadata

\* chunksOf without the cut: every feed in one chunk
chunksOfUncut(feeds, size) == IF feeds = <<>> THEN <<>> ELSE <<feeds>>

\* lines 546-549: slices of concurrencyLimit feeds
chunksOf(feeds, size) ==
    [k \in 1..((Len(feeds) + size - 1) \div size) |->
        SubSeq(feeds, (k - 1) * size + 1, Min2(k * size, Len(feeds)))]

\* chunkResults.flat() for the sequence of the settled values
RECURSIVE flat(_)
flat(arrays) ==
    IF arrays = <<>> THEN <<>> ELSE Head(arrays) \o flat(Tail(arrays))


\* the values in the order the promises settled in, as a list the tasks
\* push to on completion would hold them
valuesInSettledOrder(promises, settledOrder) ==
    [k \in 1..Len(settledOrder) |-> promises[settledOrder[k]].value]

\* await Promise.all(chunkPromises): the values in the order of the promises,
\* whatever order they settled in (settledOrder)
promiseAllValues(promises, settledOrder) ==
    [i \in 1..Len(promises) |-> promises[i].value]

\* new Set(finalResults.map(r => r.feedUrl)).size
distinctFeeds(finalResults) ==
    Cardinality({finalResults[i].feedUrl : i \in 1..Len(finalResults)})

Pending == [state |-> "pending", value |-> <<>>]
Rejected == [state |-> "rejected", value |-> <<>>]
Fulfilled(value) == [state |-> "fulfilled", value |-> value]

\* lines 554-556: chunk.map calls the async callback, which runs up to its
\* first await before map goes on to the next feed; for a feed without a
\* cached XML it returns [] there and its promise is fulfilled at once
startBody(files, feedUrl) ==
    IF ~files[feedUrl].xml.exists THEN Fulfilled(<<>>) ELSE Pending

\* lines 553-556 as written: line 553 calls getCachePath of line 27, which
\* calls mcpCache.getCachePath; lib/mcp-cache.js exports no getCachePath, so
\* the call raises a TypeError outside the try of line 558 and the promise
\* the callback returns is rejected
startTask(files, feedUrl) ==
    IF "getCachePath" \in mcpCacheExports THEN startBody(files, feedUrl) ELSE Rejected

\* the tasks that settled while chunk.map ran, in the order of the chunk
settledAtStart(promises) ==
    LET Settled(i) == promises[i].state # "pending"
    IN  SelectSeq([i \in 1..Len(promises) |-> i], Settled)

Init ==
    /\ \E sc \in Scenarios :
           /\ feedMetadata = sc.feeds
           /\ cacheFiles = sc.state.files
           /\ parsedFeedCache = sc.state.cache
    /\ request \in Requests
    /\ pc = "idle"
    /\ parsedQuery = parseQuery(EmptyString)
    /\ feedsToSearch = <<>>
    /\ feedChunks = <<>>
    /\ chunkIndex = 1
    /\ chunkPromises = <<>>
    /\ settled = <<>>
    /\ results = <<>>
    /\ returned = NoReturn
    /\ previous = NoPrevious
    /\ searches = 0
    /\ SseInit
    /\ UnitInit

\* lines 525-549: the call up to the loop over the chunks
StartSearch ==
    /\ pc = "idle"
    /\ searches < MaxSearches
    /\ pc' = "loop"
    /\ parsedQuery' = parseQuery(request.query)
    /\ feedsToSearch' = selectFeeds(feedMetadata, request.feedUrls)
    /\ feedChunks' = chunksOf(feedsToSearch', concurrencyLimit)
    /\ chunkIndex' = 1
    /\ chunkPromises' = <<>>
    /\ settled' = <<>>
    /\ results' = <<>>
    /\ returned' = NoReturn
    /\ UNCHANGED <<feedMetadata, cacheFiles, parsedFeedCache, request, previous, searches>>
    /\ UNCHANGED <<sseVars, unitVars>>

\* line 552: chunk.map starts one task per feed of the chunk
MapChunkStarting(promises) ==
    /\ pc = "loop"
    /\ chunkIndex <= Len(feedChunks)
    /\ pc' = "await"
    /\ chunkPromises' = promises
    /\ settled' = settledAtStart(promises)
    /\ UNCHANGED <<feedMetadata, cacheFiles, parsedFeedCache, request, parsedQuery,
                   feedsToSearch, feedChunks, chunkIndex, results, returned,
                   previous, searches>>
    /\ UNCHANGED <<sseVars, unitVars>>

\* line 552 as written
MapChunk ==
    MapChunkStarting([i \in 1..Len(feedChunks[chunkIndex]) |->
                         startTask(cacheFiles, feedChunks[chunkIndex][i])])

\* line 552 behind line 553
MapChunkBody ==
    MapChunkStarting([i \in 1..Len(feedChunks[chunkIndex]) |->
                         startBody(cacheFiles, feedChunks[chunkIndex][i])])

\* lines 558-622: task i of the chunk goes on behind its first await and
\* its promise is fulfilled with the feed's scored items
FeedTaskBody(i) ==
    /\ pc = "await"
    /\ chunkPromises[i].state = "pending"
    /\ \E r \in {processFeed(cacheFiles, parsedFeedCache, feedChunks[chunkIndex][i],
                             parsedQuery, request)} :
           /\ chunkPromises' = [chunkPromises EXCEPT
                                   ![i] = [state |-> "fulfilled", value |-> r.value]]
           /\ parsedFeedCache' = r.cache
    /\ settled' = Append(settled, i)
    /\ UNCHANGED <<feedMetadata, cacheFiles, request, pc, parsedQuery, feedsToSearch,
                   feedChunks, chunkIndex, results, returned, previous, searches>>
    /\ UNCHANGED <<sseVars, unitVars>>

\* line 625: Promise.all rejects once a promise of the chunk is rejected;
\* nothing catches it and the call of searchCachedFeeds throws
AwaitRejected ==
    /\ pc = "await"
    /\ \E i \in 1..Len(chunkPromises) : chunkPromises[i].state = "rejected"
    /\ pc' = "threw"
    /\ UNCHANGED <<feedMetadata, cacheFiles, parsedFeedCache, request, parsedQuery,
                   feedsToSearch, feedChunks, chunkIndex, chunkPromises, settled,
                   results, returned, previous, searches>>
    /\ UNCHANGED <<sseVars, unitVars>>

\* lines 625-626: every promise of the chunk is fulfilled; the values are
\* appended to results and the loop goes to the next chunk
AwaitFulfilled ==
    /\ pc = "await"
    /\ \A i \in 1..Len(chunkPromises) : chunkPromises[i].state = "fulfilled"
    /\ results' = results \o flat(promiseAllValues(chunkPromises, settled))
    /\ chunkIndex' = chunkIndex + 1
    /\ pc' = "loop"
    /\ UNCHANGED <<feedMetadata, cacheFiles, parsedFeedCache, request, parsedQuery,
                   feedsToSearch, feedChunks, chunkPromises, settled, returned,
                   previous, searches>>
    /\ UNCHANGED <<sseVars, unitVars>>

\* resultOf counting the matches after the cut to limit
resultOfTotalAfterCut(query, sorted, finalResults, feeds, parsed) ==
    [returnedValue |-> TRUE,
     query |-> query,
     results |-> finalResults,
     metadata |-> [totalMatches |-> Len(finalResults),
                   returnedMatches |-> Len(finalResults),
                   feedsSearched |-> Len(feeds),
                   feedsWithMatches |-> distinctFeeds(finalResults),
                   queryParsed |-> [logic |-> parsed.logic,
                                    quotedPhrases |-> parsed.quotedPhrases,
                                    terms |-> parsed.allTerms,
                                    fieldQueries |-> parsed.fieldQueries]]]

\* lines 629-656 (searchTimeMs, a wall-clock reading, is left out)
resultOf(query, sorted, finalResults, feeds, parsed) ==
    [returnedValue |-> TRUE,
     query |-> query,
     results |-> finalResults,
     metadata |-> [totalMatches |-> Len(sorted),
                   returnedMatches |-> Len(finalResults),
                   feedsSearched |-> Len(feeds),
                   feedsWithMatches |-> distinctFeeds(finalResults),
                   queryParsed |-> [logic |-> parsed.logic,
                                    quotedPhrases |-> parsed.quotedPhrases,
                                    terms |-> parsed.allTerms,
                                    fieldQueries |-> parsed.fieldQueries]]]

searchResult(query, sorted, limit, feeds, parsed) ==
    resultOf(query, sorted, slice0(sorted, limit), feeds, parsed)

\* lines 629-656: after the last chunk results is sorted in place, cut to
\* limit and returned
Finish ==
    /\ pc = "loop"
    /\ chunkIndex > Len(feedChunks)
    /\ results' = sort(results, TRUE)
    /\ returned' = searchResult(request.query, results', request.limit,
                                feedsToSearch, parsedQuery)
    /\ pc' = "done"
    /\ UNCHANGED <<feedMetadata, cacheFiles, parsedFeedCache, request, parsedQuery,
                   feedsToSearch, feedChunks, chunkIndex, chunkPromises, settled,
                   previous, searches>>
    /\ UNCHANGED <<sseVars, unitVars>>

\* the caller has the result; the same request is served again
Return ==
    /\ pc = "done"
    /\ pc' = "idle"
    /\ previous' = [completed |-> TRUE, results |-> returned.results]
    /\ searches' = searches + 1
    /\ UNCHANGED <<feedMetadata, cacheFiles, parsedFeedCache, request, parsedQuery,
                   feedsToSearch, feedChunks, chunkIndex, chunkPromises, settled,
                   results, returned>>
    /\ UNCHANGED <<sseVars, unitVars>>

\* the caller has the exception (the tool-call handler reports it)
Thrown ==
    /\ pc = "threw"
    /\ pc' = "idle"
    /\ searches' = searches + 1
    /\ UNCHANGED <<feedMetadata, cacheFiles, parsedFeedCache, request, parsedQuery,
                   feedsToSearch, feedChunks, chunkIndex, chunkPromises, settled,
                   results, returned, previous>>
    /\ UNCHANGED <<sseVars, unitVars>>

\* the program as written. No chunk is empty and every task of a chunk is
\* rejected at line 553 while chunk.map runs, so no task goes on behind an
\* await and line 626 is never reached: the steps FeedTaskBody and
\* AwaitFulfilled are no steps of the program as written
Next ==
    \/ StartSearch
    \/ MapChunk
    \/ AwaitRejected
    \/ Finish
    \/ Return
    \/ Thrown

Spec == Init /\ [][Next]_vars

\* the search behind line 553: every task of a chunk runs lines 554-622
\* with the path of its feed's XML
NextBody ==
    \/ StartSearch
    \/ MapChunkBody
    \/ \E i \in 1..Len(chunkPromises) : FeedTaskBody(i)
    \/ AwaitFulfilled
    \/ Finish
    \/ Return

BodySpec == Init /\ [][NextBody]_vars

\* the searches over the intact cache, for the requests with a date window
InitBatches ==
    /\ Init
    /\ cacheFiles = CachedAB.files
    /\ parsedFeedCache = CachedAB.cache
    /\ request \in DateRequests

\* a task of the chunk is behind its await: FeedTaskBody can take a step
TaskReady ==
    pc = "await" /\ \E i \in 1..Len(chunkPromises) : chunkPromises[i].state = "pending"

\* the loop is behind the last chunk: Finish can take a step
LoopDone == pc = "loop" /\ chunkIndex > Len(feedChunks)

\* the event loop runs every continuation that is ready: weak fairness of
\* the steps of a search. For the tasks and for Finish it is written out,
\* with TaskReady for ENABLED <<\E i : FeedTaskBody(i)>>_vars and LoopDone
\* for ENABLED <<Finish>>_vars
TaskFairness ==
    []<>(~TaskReady) \/ []<><<\E i \in 1..Len(chunkPromises) : FeedTaskBody(i)>>_vars

FinishFairness == []<>(~LoopDone) \/ []<><<Finish>>_vars

FairBodySpec ==
    /\ InitBatches
    /\ [][NextBody]_vars
    /\ WF_vars(MapChunkBody)
    /\ TaskFairness
    /\ WF_vars(AwaitFulfilled)
    /\ FinishFairness
    /\ WF_vars(Return)

(***************************************************************************)
(* The SSE sessions of the MCP endpoint (app.js:647-815)                   *)
(***************************************************************************)
\* the connections a run establishes and the messages it hands on
MaxConnections == 3
MaxHanded == 2

\* Map.prototype.has, get, set, delete and keys on the Map of
\* activeTransports, a sequence of entries in insertion order
mapIndex(map, key) ==
    IF \E i \in 1..Len(map) : map[i].sessionId = key
    THEN CHOOSE i \in 1..Len(map) : map[i].sessionId = key
    ELSE 0

mapHas(map, key) == mapIndex(map, key) > 0

\* a present key is looked up as the latest entry
mapGetLatest(map, key) == map[Len(map)]

mapGet(map, key) == map[mapIndex(map, key)]

\* set of a present key replaces the value and keeps the key's place
mapSet(map, key, entry) ==
    IF mapHas(map, key) THEN [map EXCEPT ![mapIndex(map, key)] = entry]
    ELSE Append(map, entry)

mapDelete(map, key) ==
    IF mapHas(map, key)
    THEN SubSeq(map, 1, mapIndex(map, key) - 1)
             \o SubSeq(map, mapIndex(map, key) + 1, Len(map))
    ELSE map

mapKeys(map) == [i \in 1..Len(map) |-> map[i].sessionId]

\* `session-${Date.now()}-${Math.random()...}` (lines 699, 737): an id no
\* other connection has, here by the number of the connection
GeneratedIds == <<"session-1", "session-2", "session-3", "session-4">>

\* the session ids a client sends
ClientSessionIds == {"s1", "s2"}

\* req.query.sessionId || req.headers['x-session-id'] || req.body?.sessionId
\* (lines 713-715, 766-768)
sessionIdOf(query, header, body) ==
    IF Truthy(query) THEN query ELSE IF Truthy(header) THEN header ELSE body

\* the entry of line 665; the transport is known by the number of its
\* connection
sessionEntry(sessionId, transport) == [sessionId |-> sessionId, transport |-> transport]

\* establishSSEConnection (lines 651-693): the transport is created and
\* entered under sessionId, the server is connected to it and the close
\* handler is registered on the request
establishSSEConnection(sessionId) ==
    /\ activeTransports' = mapSet(activeTransports, sessionId,
                                  sessionEntry(sessionId, Len(connections) + 1))
    /\ connections' = Append(connections, [sessionId |-> sessionId, open |-> TRUE])

\* app.get('/mcp/sse') (lines 696-707)
GetSse(query) ==
    /\ Len(connections) < MaxConnections
    /\ establishSSEConnection(IF Truthy(query) THEN query
                              ELSE GeneratedIds[Len(connections) + 1])
    /\ UNCHANGED <<handed, lastPost>>
    /\ UNCHANGED <<searchVars, unitVars>>

\* req.on('close') (lines 683-690): the handler deletes the key it was
\* registered with and closes its transport
Close(transport) ==
    /\ connections[transport].open
    /\ connections' = [connections EXCEPT ![transport].open = FALSE]
    /\ activeTransports' = mapDelete(activeTransports, connections[transport].sessionId)
    /\ UNCHANGED <<handed, lastPost>>
    /\ UNCHANGED <<searchVars, unitVars>>

\* what a POST got: the status and error the handler sent (200 for the
\* event stream), or status 0 and the transport whose handlePostMessage was
\* given the request and answers it
posted(endpoint, sessionId, status, error, transport) ==
    [endpoint |-> endpoint, sessionId |-> sessionId,
     sessions |-> mapKeys(activeTransports),
     status |-> status, error |-> error, handedTo |-> transport]

respond(endpoint, sessionId, status, error) ==
    /\ lastPost' = posted(endpoint, sessionId, status, error, 0)
    /\ UNCHANGED <<activeTransports, connections, handed>>

\* return await transport.handlePostMessage(req, res) (lines 728, 786, 801)
handlePostMessage(endpoint, sessionId, transport) ==
    /\ lastPost' = posted(endpoint, sessionId, 0, "", transport)
    /\ handed' = Append(handed, [transport |-> transport, endpoint |-> endpoint])
    /\ UNCHANGED <<activeTransports, connections>>

\* lines 772-803 on the sessionId of lines 766-768
routeMessage(sessionId) ==
    IF ~Truthy(sessionId)
    THEN IF Len(mapKeys(activeTransports)) = 0
         THEN respond("/mcp/messages", sessionId, 400,
                      "No active SSE session. Please connect to /mcp/sse first.")
         ELSE handlePostMessage("/mcp/messages", sessionId,
                                activeTransports[Len(activeTransports)].transport)
    ELSE IF ~mapHas(activeTransports, sessionId)
    THEN respond("/mcp/messages", sessionId, 404,
                 "Session not found. Please establish SSE connection first.")
    ELSE handlePostMessage("/mcp/messages", sessionId,
                           mapGet(activeTransports, sessionId).transport)

\* app.post('/mcp/messages') (lines 763-815)
PostMessages(query, header, body) ==
    /\ Len(handed) < MaxHanded
    /\ routeMessage(sessionIdOf(query, header, body))
    /\ UNCHANGED <<searchVars, unitVars>>

\* lines 720-753 of app.post('/mcp/sse') on the sessionId of lines 713-715
routeSsePost(sessionId, hasMessage) ==
    IF Truthy(sessionId) /\ mapHas(activeTransports, sessionId)
    THEN handlePostMessage("/mcp/sse", sessionId,
                           mapGet(activeTransports, sessionId).transport)
    ELSE IF hasMessage
    THEN /\ Len(connections) < MaxConnections
         /\ establishSSEConnection(GeneratedIds[Len(connections) + 1])
         /\ lastPost' = posted("/mcp/sse", sessionId, 200, "", 0)
         /\ UNCHANGED handed
    ELSE respond("/mcp/sse", sessionId, 400, "No active SSE session found")

\* app.post('/mcp/sse') (lines 710-760); hasMessage: the body holds a
\* JSON-RPC message (req.body.method || req.body.jsonrpc)
PostSse(query, header, body, hasMessage) ==
    /\ Len(handed) < MaxHanded
    /\ routeSsePost(sessionIdOf(query, header, body), hasMessage)
    /\ UNCHANGED <<searchVars, unitVars>>

\* the server with no search in progress
SseStart ==
    /\ Init
    /\ feedMetadata = <<>>
    /\ cacheFiles = CachedAB.files
    /\ parsedFeedCache = CachedAB.cache
    /\ request = Request(QueryOr, DefaultLimit, TRUE, DefaultFuzzyTolerance,
                         null, null, NoFeedUrls, DefaultPerFeedLimit)

SseNext ==
    \/ \E query \in ClientSessionIds \cup {null} : GetSse(query)
    \/ \E transport \in 1..Len(connections) : Close(transport)
    \/ \E query \in ClientSessionIds \cup {null}, header \in {null, "s2"}, body \in {null, "s1"} : PostMessages(query, header, body)
    \/ \E query \in ClientSessionIds \cup {null}, header \in {null, "s2"}, body \in {null, "s1"}, hasMessage \in BOOLEAN : PostSse(query, header, body, hasMessage)

SseSpec == SseStart /\ [][SseNext]_vars

(***************************************************************************)
(* The helpers of mcp-helpers.js called on their own: matchesTerm,         *)
(* parseQuery and calculateRelevanceScore over bounded sets of arguments   *)
(***************************************************************************)
MaxTextLen == 4
MaxTermLen == 3

\* the strings over an alphabet up to a length
StringsUpTo(alphabet, maxLen) == UNION {[1..n -> alphabet] : n \in 0..maxLen}

\* the texts a field is given: every string of two letters and the space up
\* to MaxTextLen, and some longer ones with capitals, a tab at the edge and
\* characters outside ASCII
MatchTexts ==
    StringsUpTo({"a", "b", " "}, MaxTextLen)
        \cup {TitleA1, TitleB1, <<"s","t","a","r","t">>, <<"S","t","A","r","t"," ">>,
              <<"\t","m","a","p","s">>, <<"5",MicroSign,"m">>, <<"5",GreekCapitalMu,"m">>}

\* the terms: every string of two letters up to MaxTermLen, and some longer ones
MatchTerms ==
    StringsUpTo({"a", "b"}, MaxTermLen)
        \cup {<<"a","r","t">>, <<"A","R","T">>, <<"s","t","r","a","t">>, <<"m","a","p","z">>,
              <<"g","i","z">>, <<"5",GreekSmallMu,"m">>, <<"m">>}

FuzzyTolerances == 0..2

\* the result of a call that has not returned
NoResult == [returned |-> FALSE]

\* the calls matchesTerm(text, term, useWordBoundary, fuzzyTolerance)
MatchesTermCalls ==
    [fn : {"matchesTerm"}, text : MatchTexts, term : MatchTerms,
     useWordBoundary : BOOLEAN, fuzzyTolerance : FuzzyTolerances, result : {NoResult}]

\* the call returns
MatchesTermReturns ==
    /\ called.fn = "matchesTerm"
    /\ called.result = NoResult
    /\ called' = [called EXCEPT !.result =
                      matchesTerm(called.text, called.term, called.useWordBoundary,
                                  called.fuzzyTolerance)]
    /\ UNCHANGED <<searchVars, sseVars, lruVars, storeVars>>

MaxPieces == 3

QueryPieces ==
    {<<"a">>, <<"b">>, <<"O","R">>, <<"o","r">>, <<"A","N","D">>,
     <<"\"","a"," ","O","R"," ","b","\"">>, <<"\"">>, <<"\"","\"">>,
     <<"t","i","t","l","e",":">>, <<"T","i","t","l","e",":","a">>,
     <<"s","o","u","r","c","e",":","b">>}

\* the pieces joined by single spaces
RECURSIVE joinPieces(_)
joinPieces(pieces) ==
    IF pieces = <<>> THEN <<>>
    ELSE IF Len(pieces) = 1 THEN pieces[1]
    ELSE pieces[1] \o <<" ">> \o joinPieces(Tail(pieces))

\* the query strings: up to MaxPieces words, quoted phrases, lone and empty
\* quotes and field tokens separated by spaces, the empty string among them,
\* and some with whitespace runs and a field token glued to a word
ParseQueries ==
    {joinPieces(pieces) : pieces \in StringsUpTo(QueryPieces, MaxPieces)}
        \cup {QueryTitleAndSource, QueryPhraseOrGeneral, QueryFieldAndGeneral,
              <<" ","a","\t","O","r"," "," ","b"," ">>,
              <<"a"," ","O","R","t","i","t","l","e",":","x"," ","b">>,
              <<"t","i","t","l","e",":","a"," ","O","R","s","o","u","r","c","e",":","b"," ","c">>}

\* the calls parseQuery(query)
ParseQueryCalls == [fn : {"parseQuery"}, query : ParseQueries, result : {NoResult}]

ParseQueryReturns ==
    /\ called.fn = "parseQuery"
    /\ called.result = NoResult
    /\ called' = [called EXCEPT !.result = parseQuery(called.query)]
    /\ UNCHANGED <<searchVars, sseVars, lruVars, storeVars>>

\* the texts of the fields of the items that are scored
ScoreTexts ==
    {EmptyString, <<"G","I","S"," ","m","a","p","s">>, <<"m","a","p","s">>,
     <<"o","l","d"," ","G","i","s">>}

ScoreItems ==
    {Item(title, description, source, "2026-02-27T10:00:00Z", "x") :
        title \in ScoreTexts, description \in ScoreTexts, source \in ScoreTexts}

\* the query strings whose parse is scored
ScoreQueries ==
    {<<"m","a","p","s">>,
     <<"m">>,
     <<"z","z","z">>,
     <<"g","i","s"," ","O","R"," ","m","a","p","z">>,
     <<"g","i","s"," ","A","N","D"," ","m","a","p","z">>,
     <<"g","i","s"," ","A","N","D"," ","z","z","z">>,
     <<"z","z","z"," ","O","R"," ","g","i","s">>,
     <<"\"","g","i","s"," ","m","a","p","s","\"">>,
     <<"\"","m","a","p","s","\""," ","t","i","t","l","e",":","m","a","p","s"," ","m","a","p","s">>,
     <<"\"","g","i","s","\""," ","z","z","z">>,
     <<"\"","g","i","s","\""," ","\"","m","a","p","s","\"">>,
     <<"t","i","t","l","e",":","g","i","s">>,
     <<"t","i","t","l","e",":","m","a","p","z">>,
     <<"d","e","s","c","r","i","p","t","i","o","n",":","m","a","p","z">>,
     <<"s","o","u","r","c","e",":","G","I","Z">>,
     <<"s","o","u","r","c","e",":","o","l","d"," ","O","R"," ","m","a","p","s">>,
     <<"m","a","p","s"," ","t","i","t","l","e",":","g","i","s"," ","o","r"," ","o","l","d">>}

\* the calls calculateRelevanceScore(item, parsedQuery, useWordBoundary, fuzzyTolerance)
ScoreCalls ==
    [fn : {"calculateRelevanceScore"}, item : ScoreItems,
     parsedQuery : {parseQuery(query) : query \in ScoreQueries},
     useWordBoundary : BOOLEAN, fuzzyTolerance : FuzzyTolerances, result : {NoResult}]

CalculateRelevanceScoreReturns ==
    /\ called.fn = "calculateRelevanceScore"
    /\ called.result = NoResult
    /\ called' = [called EXCEPT !.result =
                      calculateRelevanceScore(called.item, called.parsedQuery,
                                              called.useWordBoundary, called.fuzzyTolerance)]
    /\ UNCHANGED <<searchVars, sseVars, lruVars, storeVars>>

\* no search in progress and no connection
Quiet ==
    /\ feedMetadata = <<>>
    /\ parsedFeedCache = CachedAB.cache
    /\ request = Request(QueryOr, DefaultLimit, TRUE, DefaultFuzzyTolerance,
                         null, null, NoFeedUrls, DefaultPerFeedLimit)
    /\ pc = "idle"
    /\ parsedQuery = parseQuery(EmptyString)
    /\ feedsToSearch = <<>>
    /\ feedChunks = <<>>
    /\ chunkIndex = 1
    /\ chunkPromises = <<>>
    /\ settled = <<>>
    /\ results = <<>>
    /\ returned = NoReturn
    /\ previous = NoPrevious
    /\ searches = 0
    /\ SseInit

\* one helper is called
HelperStart ==
    /\ Quiet
    /\ cacheFiles = CachedAB.files
    /\ LruIdle
    /\ StoreIdle
    /\ called \in MatchesTermCalls \cup ParseQueryCalls \cup ScoreCalls

HelperNext ==
    \/ MatchesTermReturns
    \/ ParseQueryReturns
    \/ CalculateRelevanceScoreReturns

HelperSpec == HelperStart /\ [][HelperNext]_vars

\* a helper has been called and has not returned
CallPending == called.result = NoResult

\* a helper that has been called runs to its return: weak fairness of
\* HelperNext, written with the guard of its actions
ReturnFairness == []<>(~CallPending) \/ []<><<HelperNext>>_vars

FairHelperSpec == HelperSpec /\ ReturnFairness

(***************************************************************************)
(* An LRUCache of its own (mcp-cache.js:16-56) under any calls             *)
(***************************************************************************)
MaxCalls == 4

LruMaxSizes == {1, 2}
LruKeys == {"k1", "k2", "k3"}
LruValues == {"v1", "v2"}

\* what a method without a return statement returns
undefined == "<undefined>"

\* LRUCache.get (lines 22-31): null for an absent key
lruGetOrNull(cache, key) ==
    IF ~lruHas(cache, key) THEN [value |-> null, cache |-> cache] ELSE lruGet(cache, key)

\* LRUCache.size (lines 53-55)
lruSize(cache) == Len(cache)

lruCalled(method, key, value, ret) ==
    /\ Len(lruLog) < MaxCalls
    /\ lruLog' = Append(lruLog, [method |-> method, key |-> key, value |-> value,
                                 returned |-> ret])
    /\ UNCHANGED <<lruMaxSize, searchVars, sseVars, called, storeVars>>

LruGet(key) ==
    /\ lruCalled("get", key, null, lruGetOrNull(lruCache, key).value)
    /\ lruCache' = lruGetOrNull(lruCache, key).cache

LruSet(key, value) ==
    /\ lruCalled("set", key, value, undefined)
    /\ lruCache' = lruSet(lruCache, key, value, lruMaxSize)

LruHas(key) ==
    /\ lruCalled("has", key, null, lruHas(lruCache, key))
    /\ lruCache' = lruCache

\* LRUCache.clear (lines 49-51)
LruClear ==
    /\ lruCalled("clear", null, null, undefined)
    /\ lruCache' = <<>>

LruSizeCall ==
    /\ lruCalled("size", null, null, lruSize(lruCache))
    /\ lruCache' = lruCache

\* new LRUCache(maxSize)
LruStart ==
    /\ Quiet
    /\ cacheFiles = CachedAB.files
    /\ called = NoCall
    /\ StoreIdle
    /\ lruCache = <<>>
    /\ lruMaxSize \in LruMaxSizes
    /\ lruLog = <<>>

LruNext ==
    \/ \E key \in LruKeys : LruGet(key)
    \/ \E key \in LruKeys, value \in LruValues : LruSet(key, value)
    \/ \E key \in LruKeys : LruHas(key)
    \/ LruClear
    \/ LruSizeCall

LruSpec == LruStart /\ [][LruNext]_vars

(***************************************************************************)
(* The item cache of a feed (mcp-cache.js:123-176) under writes of the     *)
(* item cache, rewrites of the feed's XML (app.js:55) and reads            *)
(***************************************************************************)
MaxClock == 2
MaxWrites == 3

\* writeItemCache (lines 123-141): lastUpdated is new Date().toISOString(),
\* the wall clock to the millisecond
writeItemCache(files, feedUrl, items, now) ==
    [files EXCEPT ![feedUrl].itemCache = ItemCache(now, items)]

\* fs.writeFileSync(cachePath, response.data, 'utf8') (app.js:55): the
\* mtime of the file is the wall clock at the write
writeXml(files, feedUrl, items, now) ==
    [files EXCEPT ![feedUrl].xml = Xml(now, items)]

\* a millisecond passes
Tick ==
    /\ clock < MaxClock
    /\ clock' = clock + 1
    /\ UNCHANGED <<writeLog, lastRead, searchVars, sseVars, called, lruVars>>

written(file, feedUrl, items) ==
    /\ Len(writeLog) < MaxWrites
    /\ writeLog' = Append(writeLog, [file |-> file, feedUrl |-> feedUrl, items |-> items, at |-> clock])
    /\ UNCHANGED <<clock, lastRead, sseVars, called, lruVars>>
    /\ UNCHANGED <<feedMetadata, parsedFeedCache, request, pc, parsedQuery, feedsToSearch,
                   feedChunks, chunkIndex, chunkPromises, settled, results, returned,
                   previous, searches>>

WriteItemCache(feedUrl, items) ==
    /\ written("items", feedUrl, items)
    /\ cacheFiles' = writeItemCache(cacheFiles, feedUrl, items, clock)

WriteXml(feedUrl, items) ==
    /\ written("xml", feedUrl, items)
    /\ cacheFiles' = writeXml(cacheFiles, feedUrl, items, clock)

ReadItemCache(feedUrl) ==
    /\ lastRead' = [feedUrl |-> feedUrl,
                    isNull |-> readItemCache(cacheFiles, feedUrl).isNull,
                    items |-> readItemCache(cacheFiles, feedUrl).items,
                    seen |-> Len(writeLog)]
    /\ UNCHANGED <<clock, writeLog, searchVars, sseVars, called, lruVars>>

\* the cache directory at the start: nothing of feed A, an item cache of
\* feed B that is no JSON, nothing of feed C
StoreStart ==
    /\ Quiet
    /\ cacheFiles = Files(NoXml, NoItemCache, NoXml, CorruptItemCache)
    /\ called = NoCall
    /\ LruIdle
    /\ StoreIdle

StoreNext ==
    \/ Tick
    \/ \E items \in {ItemsA, ItemsB} : WriteItemCache(FeedA, items)
    \/ \E items \in {ItemsA, ItemsB} : WriteXml(FeedA, items)
    \/ \E feedUrl \in {FeedA, FeedB, FeedC} : ReadItemCache(feedUrl)

StoreSpec == StoreStart /\ [][StoreNext]_vars

(***************************************************************************)
(* What the properties speak of                                            *)
(***************************************************************************)
Range(seq) == {seq[i] : i \in 1..Len(seq)}

AllItems == {ItemA0, ItemA1, ItemA2, ItemA3, ItemB1, ItemB2}

\* parsedQuery holds the parse of request.query
QueryIsParsed == pc # "idle" \/ searches > 0

\* the chunk the promises in chunkPromises belong to
PromisedChunk == IF pc = "await" THEN chunkIndex ELSE chunkIndex - 1

FulfilledTasks ==
    {i \in 1..Len(chunkPromises) : chunkPromises[i].state = "fulfilled"}

TaskFeed(i) == feedChunks[PromisedChunk][i]

\* every scored item the call holds: in a fulfilled promise, in results, in
\* the returned value
ReturnedResults == IF returned.returnedValue THEN Range(returned.results) ELSE {}
ScoredEntries ==
    UNION {Range(chunkPromises[i].value) : i \in FulfilledTasks}
        \cup Range(results) \cup ReturnedResults

\* the items the search reads for a feed in the current cache state
ItemsRead(url) ==
    IF ~cacheFiles[url].xml.exists THEN <<>>
    ELSE getFeedItemsWithCache(
             cacheFiles, url,
             parseCachedFeed(cacheFiles, parsedFeedCache, url).parsedFeed).items

\* the scored list the search computes for a feed under a request
ScoredListFor(url, req) ==
    scoredOrCaught(filterByDate(ItemsRead(url), req.dateFrom, req.dateTo),
                   url, parsedQuery, req)

\* a term matches a field of the item under the options of the request;
\* nothing matches a field that holds no string
TermMatchesField(item, f, term) ==
    /\ item[f] # TitleObject
    /\ matchesTerm(toLowerCase(item[f]), term,
                   request.useWordBoundary, request.fuzzyTolerance).matched

TermMatchesSomeField(item, term) ==
    \E k \in 1..3 : TermMatchesField(item, SearchFields[k], term)

\* a quoted phrase occurs in a field of the item, ignoring case
PhraseInSomeField(item, phrase) ==
    \E k \in 1..3 :
        /\ item[SearchFields[k]] # TitleObject
        /\ Occurrences(toLowerCase(item[SearchFields[k]]), toLowerCase(phrase), 0) # {}

SomePhraseMatches(item) ==
    \E p \in Range(parsedQuery.quotedPhrases) : PhraseInSomeField(item, p)

SomeFieldTermMatches(item) ==
    \E k \in 1..3 : \E t \in Range(parsedQuery.fieldQueries[SearchFields[k]]) :
        TermMatchesField(item, SearchFields[k], t)

SomeGeneralTermMatches(item) ==
    \E t \in Range(parsedQuery.fieldQueries.general) : TermMatchesSomeField(item, t)

SomeGeneralTermMisses(item) ==
    \E t \in Range(parsedQuery.fieldQueries.general) : ~TermMatchesSomeField(item, t)

MatchesSomething(item) ==
    SomePhraseMatches(item) \/ SomeFieldTermMatches(item) \/ SomeGeneralTermMatches(item)

\* the parsed time of a date string that parses
TimeOf(dateString) == DateTable[dateString]

\* the per-feed cut of line 616 dropped nothing from the list of task i
NotCutPerFeed(i) ==
    request.perFeedLimit >= 0 /\ Len(chunkPromises[i].value) < request.perFeedLimit

(***************************************************************************)
(* C1: under AND logic with at least one general term, an item that        *)
(* misses some general term in all of title, description and source gets   *)
(* score 0 with empty matchedFields from calculateRelevanceScore and is in *)
(* no scored list and not in the results of searchCachedFeeds, whatever    *)
(* quoted phrases or field-scoped terms it matches.                        *)
(***************************************************************************)
C1_AndShortCircuit ==
    /\ (pc = "loop" /\ chunkIndex = 1 /\ parsedQuery.logic = "AND") =>
           \A item \in AllItems :
               SomeGeneralTermMisses(item) =>
                   LET r == calculateRelevanceScore(item, parsedQuery,
                                                    request.useWordBoundary,
                                                    request.fuzzyTolerance)
                   IN  r.score = 0 /\ r.matchedFields = <<>>
    /\ (QueryIsParsed /\ parsedQuery.logic = "AND") =>
           \A e \in ScoredEntries : ~SomeGeneralTermMisses(e.item)

\* a search has returned for which a searched feed holds an item that
\* matches a quoted phrase or a field-scoped term and misses a general term
C1_Witness ==
    /\ pc = "done"
    /\ parsedQuery.logic = "AND"
    /\ \E url \in Range(feedsToSearch) : \E item \in Range(ItemsRead(url)) :
           /\ SomeGeneralTermMisses(item)
           /\ SomePhraseMatches(item) \/ SomeFieldTermMatches(item)
           /\ \A e \in ReturnedResults : e.item # item

TermQGIS == <<"Q","G","I","S">>
TermGeoObserver == <<"g","e","o","O","b","s","e","r","v","e","r">>

ItemsOfSearchedFeeds == UNION {Range(ItemsRead(url)) : url \in Range(feedsToSearch)}

ItemsOfFeed(seq, url) == {k \in 1..Len(seq) : seq[k].feedUrl = url}

Outranks(a, b) ==
    \/ a.relevanceScore > b.relevanceScore
    \/ /\ a.relevanceScore = b.relevanceScore
       /\ TimeOf(a.item.pubDate) > TimeOf(b.item.pubDate)

Count(seq, x) == Cardinality({k \in 1..Len(seq) : seq[k] = x})

\* the per-feed lists of the feeds searched, one after the other
MergedLists ==
    flat([k \in 1..Len(feedsToSearch) |-> ScoredListFor(feedsToSearch[k], request)])

C7_Ranked ==
    pc = "done" =>
        LET r == returned.results
        IN  /\ \A e \in Range(MergedLists) \cup Range(results) :
                   Count(results, e) = Count(MergedLists, e)
            /\ Len(r) <= Len(results)
            /\ r = SubSeq(results, 1, Len(r))
            /\ request.limit >= 0 => Len(r) = Min2(request.limit, Len(results))
            /\ \A i \in 1..Len(r) : \A j \in 1..Len(r) :
                   i < j => ~Outranks(r[j], r[i])
            /\ \A k \in (Len(r) + 1)..Len(results) : \A i \in 1..Len(r) :
                   ~Outranks(results[k], r[i])

\* a search has returned two items of equal score and different dates and
\* has left out an item
C7_Witness ==
    /\ pc = "done"
    /\ Len(returned.results) < Len(results)
    /\ \E i \in 1..Len(returned.results) : \E j \in 1..Len(returned.results) :
           /\ i < j
           /\ returned.results[i].relevanceScore = returned.results[j].relevanceScore
           /\ TimeOf(returned.results[i].item.pubDate)
                  > TimeOf(returned.results[j].item.pubDate)

(***************************************************************************)
(* C8: for a fixed cache state and request the results array is the same,  *)
(* element for element, whatever order the feed tasks complete in and      *)
(* however often the search is repeated.                                   *)
(***************************************************************************)
C8_Deterministic ==
    (pc = "done" /\ previous.completed) => returned.results = previous.results

\* a repeated search whose tasks did not complete in the order of the feed
\* list has returned, next to each other, two items of different feeds that
\* tie on score and date
C8_Witness ==
    /\ pc = "done"
    /\ previous.completed
    /\ \E k \in 1..Len(settled) : settled[k] # k
    /\ \E i \in 1..(Len(returned.results) - 1) :
           /\ returned.results[i].feedUrl # returned.results[i + 1].feedUrl
           /\ returned.results[i].relevanceScore = returned.results[i + 1].relevanceScore
           /\ TimeOf(returned.results[i].item.pubDate)
                  = TimeOf(returned.results[i + 1].item.pubDate)

(***************************************************************************)
(* C9: a call of searchCachedFeeds never throws; it returns a complete     *)
(* SearchResult whose feedsSearched counts every feed considered and whose *)
(* results come from the feeds whose cache can be read.                    *)
(***************************************************************************)
CacheReadable(url) ==
    cacheFiles[url].xml.exists /\ Len(ItemsRead(url)) > 0

C9_NeverThrows ==
    /\ pc # "threw"
    /\ pc = "done" =>
           /\ returned.returnedValue
           /\ returned.metadata.feedsSearched = Len(feedsToSearch)
           /\ returned.metadata.returnedMatches = Len(returned.results)
           /\ \A e \in ReturnedResults :
                  e.feedUrl \in Range(feedsToSearch) /\ CacheReadable(e.feedUrl)

(***************************************************************************)
(* C10: every returned item has dateFrom <= pubDate < dateTo, as the claim *)
(* states it, for the bounds that are given.                               *)
(***************************************************************************)
IsGiven(bound) == bound \in DOMAIN DateTable

InClosedWindow(item) ==
    /\ IsGiven(request.dateFrom) => TimeOf(request.dateFrom) <= TimeOf(item.pubDate)
    /\ IsGiven(request.dateTo) => TimeOf(item.pubDate) <= TimeOf(request.dateTo)

\* the item is scored above zero once it has passed the date filter
Scores(item) ==
    /\ MatchesSomething(item)
    /\ parsedQuery.logic = "AND" => ~SomeGeneralTermMisses(item)

IsMalformed(bound) == bound # null /\ bound # "" /\ bound \notin DOMAIN DateTable

BoundOrNone(bound) == IF IsMalformed(bound) THEN null ELSE bound

WithoutMalformedBounds(req) ==
    [req EXCEPT !.dateFrom = BoundOrNone(@), !.dateTo = BoundOrNone(@)]

\* the results of the search for a request over the feeds searched
ResultsFor(req) ==
    slice0(sort(flat([k \in 1..Len(feedsToSearch) |->
                         ScoredListFor(feedsToSearch[k], req)]), TRUE),
           req.limit)

Clamped(fuzzyTolerance) == Max2(0, Min2(2, fuzzyTolerance))

PhraseAndSameTerm ==
    /\ QueryIsParsed
    /\ Len(parsedQuery.quotedPhrases) = 1
    /\ Len(parsedQuery.fieldQueries.general) = 1
    /\ toLowerCase(parsedQuery.quotedPhrases[1])
           = toLowerCase(parsedQuery.fieldQueries.general[1])
    /\ \A k \in 1..3 : parsedQuery.fieldQueries[SearchFields[k]] = <<>>

\* the title holds the phrase, and neither the description nor the source
\* holds the phrase or matches the term
MatchesInTitleOnly(item) ==
    /\ Occurrences(toLowerCase(item.title),
                   toLowerCase(parsedQuery.quotedPhrases[1]), 0) # {}
    /\ \A f \in {"description", "source"} :
           /\ Occurrences(toLowerCase(item[f]),
                          toLowerCase(parsedQuery.quotedPhrases[1]), 0) = {}
           /\ ~TermMatchesField(item, f, parsedQuery.fieldQueries.general[1])

\* every such item of a feed is in the feed's list with the score given in
\* half points
TitleOnlyItemsScore(halfPoints) ==
    PhraseAndSameTerm =>
        /\ \A e \in ScoredEntries :
               MatchesInTitleOnly(e.item) => e.relevanceScore = halfPoints
        /\ \A i \in FulfilledTasks :
               NotCutPerFeed(i) =>
                   \A item \in Range(ItemsRead(TaskFeed(i))) :
                       MatchesInTitleOnly(item) =>
                           \E e \in Range(chunkPromises[i].value) : e.item = item

C13_PhraseStacksTwentyPlusNine == TitleOnlyItemsScore(2 * (20 + 9))

(***************************************************************************)
(* C13, amended: a title that holds a quoted phrase and matches a general  *)
(* term of the same text gets both contributions, the phrase bonus         *)
(* weights.title * 10 = 30 and the exact term score 9: 30 + 9 for the      *)
(* title.                                                                  *)
(***************************************************************************)
C13_PhraseStacksThirtyPlusNine == TitleOnlyItemsScore(2 * (30 + 9))

\* the search for "GIS" gis has returned an item that matches in its title
\* only
C13_Witness ==
    /\ pc = "done"
    /\ PhraseAndSameTerm
    /\ \E e \in ReturnedResults : MatchesInTitleOnly(e.item)

(***************************************************************************)
(* C14: for a query that is one quoted phrase, with the default options,   *)
(* an item matches in a field exactly when the lower-cased field holds the *)
(* lower-cased phrase as a substring; each such field adds weight * 10 and *)
(* records [index, index + length); so every item that holds the phrase is *)
(* ranked above (is returned, unlike) every item that holds only some of   *)
(* the words of the phrase.                                                *)
(***************************************************************************)
PhraseOnly ==
    /\ QueryIsParsed
    /\ Len(parsedQuery.quotedPhrases) = 1
    /\ parsedQuery.fieldQueries = EmptyFieldQueries
    /\ request.useWordBoundary
    /\ request.fuzzyTolerance = 1

PhraseStarts(item, f) ==
    Occurrences(toLowerCase(item[f]), toLowerCase(parsedQuery.quotedPhrases[1]), 0)

HoldsPhrase(item, f) == PhraseStarts(item, f) # {}

\* twice weight * 10 of a field that holds the phrase
PhraseHalfPoints(item, f) ==
    IF HoldsPhrase(item, f)
    THEN [title |-> 60, description |-> 40, source |-> 20][f]
    ELSE 0

PhrasePositions(item, f) ==
    IF HoldsPhrase(item, f)
    THEN << <<SetMin(PhraseStarts(item, f)),
              SetMin(PhraseStarts(item, f)) + Len(parsedQuery.quotedPhrases[1])>> >>
    ELSE <<>>

HoldsPhraseIn(item) == LET Holds(f) == HoldsPhrase(item, f) IN SelectSeq(SearchFields, Holds)

SharesWordOfPhrase(item) ==
    \E w \in Range(splitSpaces(toLowerCase(parsedQuery.quotedPhrases[1]))) :
        Occurrences(toLowerCase(item.title), w, 0) # {}

NothingMatches ==
    \A url \in Range(feedsToSearch) :
        \A item \in Range(filterByDate(ItemsRead(url), request.dateFrom,
                                       request.dateTo)) :
            ~Scores(item)

IsMessagesPost(post) == post.endpoint = "/mcp/messages"

NoActiveSession(post) ==
    /\ post.status = 400
    /\ post.error = "No active SSE session. Please connect to /mcp/sse first."
    /\ post.handedTo = 0

NotFound(post) == post.status = 404 /\ post.handedTo = 0

NamesUnknownSession(post) ==
    Truthy(post.sessionId) /\ post.sessionId \notin Range(post.sessions)

\* the step hands a message posted to /mcp/messages to a transport
HandsOn == handed' # handed /\ IsMessagesPost(lastPost')

\* the message goes to one transport, that of an entry of activeTransports
\* whose connection is open: the entry of the session the request names,
\* or the latest entry when it names none
HandedToActiveSession ==
    /\ handed' = Append(handed, [transport |-> lastPost'.handedTo,
                                 endpoint |-> "/mcp/messages"])
    /\ \E i \in 1..Len(activeTransports) :
           /\ activeTransports[i].transport = lastPost'.handedTo
           /\ connections[activeTransports[i].transport].open
           /\ connections[activeTransports[i].transport].sessionId
                  = activeTransports[i].sessionId
           /\ IF Truthy(lastPost'.sessionId)
              THEN activeTransports[i].sessionId = lastPost'.sessionId
              ELSE i = Len(activeTransports)

RefusedPostHandsNothing ==
    (lastPost' # lastPost /\ lastPost'.status \in {400, 404}) => handed' = handed

\* as stated: 400 whenever no session is established
C16_NoSessionIs400 ==
    /\ [](IsMessagesPost(lastPost) =>
              /\ lastPost.sessions = <<>> => NoActiveSession(lastPost)
              /\ NamesUnknownSession(lastPost) => NotFound(lastPost))
    /\ [][(HandsOn => HandedToActiveSession) /\ RefusedPostHandsNothing]_vars

\* C16 amended: a POST to /mcp/messages that names no sessionId gets the
\* 400 'No active SSE session' error when no session is active; one that
\* names a sessionId that is not in the map gets the 404, also when no
\* session is active at all; in neither case is the message handed to a
\* transport, and a message that is handed on goes to the transport of the
\* named session, or of the latest session when none is named, whose
\* connection is open.
C16_NoSessionIdOrUnknownSession ==
    /\ [](IsMessagesPost(lastPost) =>
              /\ (~Truthy(lastPost.sessionId) /\ lastPost.sessions = <<>>)
                     => NoActiveSession(lastPost)
              /\ NamesUnknownSession(lastPost) => NotFound(lastPost)
              /\ lastPost.handedTo # 0 =>
                     /\ lastPost.sessions # <<>>
                     /\ ~NamesUnknownSession(lastPost))
    /\ [][(HandsOn => HandedToActiveSession) /\ RefusedPostHandsNothing]_vars

\* a message was handed to a session's transport, the session's connection
\* closed, and a POST naming that session, with no session left, got the 404
C16_Witness ==
    /\ IsMessagesPost(lastPost)
    /\ lastPost.status = 404
    /\ lastPost.sessions = <<>>
    /\ \E k \in 1..Len(handed) :
           /\ handed[k].endpoint = "/mcp/messages"
           /\ connections[handed[k].transport].sessionId = lastPost.sessionId

(***************************************************************************)
(* C17: for every query string parseQuery extracts every token of the      *)
(* form field:term (field one of title, description, source in any case;   *)
(* term without whitespace) that lies outside the quoted phrases: the      *)
(* terms of a field are in fieldQueries[field] in their order, several     *)
(* tokens of one field accumulate, and no general term holds the text of   *)
(* such a token.                                                           *)
(***************************************************************************)
\* the query without its quoted phrases
RECURSIVE OutsidePhrasesFrom(_, _)
OutsidePhrasesFrom(query, p) ==
    IF p >= Len(query) THEN <<>>
    ELSE IF query[p + 1] = "\"" /\ NextQuote(query, p + 1) >= p + 2
    THEN OutsidePhrasesFrom(query, NextQuote(query, p + 1) + 1)
    ELSE <<query[p + 1]>> \o OutsidePhrasesFrom(query, p + 1)

\* a whitespace-delimited token of the form field:term for field f
IsFieldToken(token, f) ==
    /\ Len(token) > Len(FieldNameChars[f]) + 1
    /\ toLowerCase(SubSeq(token, 1, Len(FieldNameChars[f]))) = FieldNameChars[f]
    /\ token[Len(FieldNameChars[f]) + 1] = ":"

TermOfToken(token, f) == SubSeq(token, Len(FieldNameChars[f]) + 2, Len(token))

FieldTokens(query, f) ==
    LET OfField(token) == IsFieldToken(token, f)
    IN  SelectSeq(splitSpaces(OutsidePhrasesFrom(query, 0)), OfField)

FieldTokenTerms(query, f) ==
    [k \in 1..Len(FieldTokens(query, f)) |-> TermOfToken(FieldTokens(query, f)[k], f)]

C17_FieldTokensExtracted ==
    QueryIsParsed =>
        \A k \in 1..3 :
            /\ parsedQuery.fieldQueries[FieldNames[k]]
                   = FieldTokenTerms(request.query, FieldNames[k])
            /\ \A token \in Range(FieldTokens(request.query, FieldNames[k])) :
                   \A t \in Range(parsedQuery.fieldQueries.general) :
                       ~includes(t, token)

(***************************************************************************)
(* C18: an exception raised while scoring an item propagates out of        *)
(* searchCachedFeeds to the caller; it is not caught at the per-feed       *)
(* boundary and turned into zero items for the feed. So no search in       *)
(* which the scorer raised on an item of a searched feed returns a result. *)
(***************************************************************************)
\* scoring the items of the feed that pass the date filter raises
ScoringRaisesFor(url) ==
    scoringThrows(filterByDate(ItemsRead(url), request.dateFrom, request.dateTo))

InFlight == {i \in 1..Len(chunkPromises) : chunkPromises[i].state = "pending"}

Completed(promises) == \A i \in 1..Len(promises) : promises[i].state = "fulfilled"

BatchesInOrder ==
    pc \in {"loop", "await", "done"} =>
        /\ flat(feedChunks) = feedsToSearch
        /\ \A k \in 1..Len(feedChunks) : Len(feedChunks[k]) \in 1..10
        /\ Len(chunkPromises) <= 10
        /\ Cardinality(InFlight) <= 10
        /\ chunkIndex \in 1..(Len(feedChunks) + 1)
        /\ pc = "await" =>
               /\ chunkIndex <= Len(feedChunks)
               /\ Len(chunkPromises) = Len(feedChunks[chunkIndex])
        /\ Len(settled) = Cardinality(Range(settled))
        /\ Range(settled) = (1..Len(chunkPromises)) \ InFlight
        /\ pc = "done" => chunkIndex = Len(feedChunks) + 1 /\ InFlight = {}

BatchStep ==
    /\ (pc = "loop" /\ pc' = "await") =>
           /\ Completed(chunkPromises)
           /\ chunkIndex' = chunkIndex
           /\ Len(chunkPromises') = Len(feedChunks[chunkIndex])
    /\ chunkIndex' # chunkIndex =>
           \/ pc = "idle" /\ chunkIndex' = 1
           \/ /\ pc = "await"
              /\ Completed(chunkPromises)
              /\ chunkIndex' = chunkIndex + 1
    /\ (pc = "await" /\ pc' = "await") =>
           \A i \in 1..Len(chunkPromises) :
               chunkPromises[i].state # "pending" =>
                   chunkPromises'[i] = chunkPromises[i]
    /\ pc' = "done" => pc = "done" \/ (pc = "loop" /\ chunkIndex > Len(feedChunks))

ParsesXml(url) ==
    /\ cacheFiles[url].xml.exists
    /\ cacheFiles[url].xml.wellFormed
    /\ readItemCache(cacheFiles, url).isNull

FreshEntry(url) ==
    [parsedFeed |-> [isNull |-> FALSE, items |-> cacheFiles[url].xml.items],
     mtime |-> cacheFiles[url].xml.mtime]

C20_StaleEntryReparsed ==
    \A i \in FulfilledTasks :
        ParsesXml(TaskFeed(i)) =>
            /\ lruHas(parsedFeedCache, xmlPath(TaskFeed(i)))
            /\ parsedFeedCache[lruIndex(parsedFeedCache, xmlPath(TaskFeed(i)))].value
                   = FreshEntry(TaskFeed(i))
            /\ chunkPromises[i].value
                   = scoreFeedItems(filterByDate(cacheFiles[TaskFeed(i)].xml.items,
                                                 request.dateFrom, request.dateTo),
                                    TaskFeed(i), parsedQuery, request)

(***************************************************************************)
(* C21  fuzzy matching                                                     *)
(***************************************************************************)
IsMatchesTermCall == called.fn = "matchesTerm" /\ called.result # NoResult

\* the whitespace-separated tokens of a text: its maximal runs of
\* characters that are not whitespace
Tokens(text) ==
    {SubSeq(text, i, j) : <<i, j>> \in
        {<<i, j>> \in (1..Len(text)) \X (1..Len(text)) :
            /\ i <= j
            /\ \A k \in i..j : ~IsSpace(text[k])
            /\ i = 1 \/ IsSpace(text[i - 1])
            /\ j = Len(text) \/ IsSpace(text[j + 1])}}

\* b is a with one character removed
OneRemoved(a, b) ==
    \E k \in 1..Len(a) : b = SubSeq(a, 1, k - 1) \o SubSeq(a, k + 1, Len(a))

\* a and b are at most one insertion, deletion or substitution apart
WithinOneEdit(a, b) ==
    \/ a = b
    \/ Len(a) = Len(b) /\ Cardinality({k \in 1..Len(a) : a[k] # b[k]}) = 1
    \/ OneRemoved(a, b)
    \/ OneRemoved(b, a)

LengthWithinTwo(a, b) == Len(a) - Len(b) \in -2..2

\* the term is found in the text by substring or, when asked for, by the
\* word-boundary expression
FoundExactly(text, term, useWordBoundary) ==
    \/ includes(toLowerCase(text), toLowerCase(term))
    \/ useWordBoundary /\ wordBoundaryRegexTest(text, toLowerCase(term))

SomeTokenWithinOneEdit(text, term) ==
    \E token \in Tokens(toLowerCase(text)) :
        /\ LengthWithinTwo(token, term)
        /\ WithinOneEdit(toLowerCase(term), token)

\* C21: with fuzzyTolerance = 0 a term that is not found by substring or
\* word-boundary matches nothing, so it never matches a token that differs
\* from it by an edit; with fuzzyTolerance = 1 such a term matches the field
\* exactly when some whitespace-separated token of the field has a length
\* within 2 of the term's and is at most one edit away from it, ignoring
\* case, and the match is then reported with exact = false
C21_FuzzyMatching ==
    IsMatchesTermCall /\ ~FoundExactly(called.text, called.term, called.useWordBoundary) =>
        /\ called.fuzzyTolerance = 0 => ~called.result.matched
        /\ called.fuzzyTolerance = 1 =>
               /\ called.result.matched <=> SomeTokenWithinOneEdit(called.text, called.term)
               /\ called.result.matched => ~called.result.exact

(***************************************************************************)
(* C28  the useWordBoundary option                                         *)
(***************************************************************************)
\* the same call with the other value of useWordBoundary
WithOtherWordBoundary ==
    matchesTerm(called.text, called.term, ~called.useWordBoundary, called.fuzzyTolerance)

IsAscii(string) ==
    \A k \in 1..Len(string) : string[k] \notin {MicroSign, GreekSmallMu, GreekCapitalMu}

IsParseQueryCall == called.fn = "parseQuery" /\ called.result # NoResult

\* the working string of parseQuery after its two removal loops
WorkingString(query) ==
    extractFieldQueries(extractQuotedPhrases(query, 0, <<>>, query).currentQuery,
                        0, EmptyFieldQueries).currentQuery

\* the string holds the word OR, in any case, with a whitespace character
\* before it and one after it
ContainsWordOr(string) ==
    \E i \in 1..(Len(string) - 3) :
        /\ IsSpace(string[i])
        /\ string[i + 1] \in {"O", "o"}
        /\ string[i + 2] \in {"R", "r"}
        /\ IsSpace(string[i + 3])

\* the letters OR, in any case, occur in the string
HoldsLettersOr(string) ==
    \E i \in 1..(Len(string) - 1) : string[i] \in {"O", "o"} /\ string[i + 1] \in {"R", "r"}

\* C23: parseQuery sets logic to OR exactly when the working string left
\* after the removal of the quoted phrases and of the field-scoped terms
\* holds the word OR, in any case, between whitespace, and to AND otherwise,
\* also when the word AND is written; a query whose only OR lies inside
\* quoted phrases gets AND
C23_LogicIsOrExactlyOnWordOr ==
    IsParseQueryCall =>
        /\ called.result.logic = (IF ContainsWordOr(WorkingString(called.query)) THEN "OR" ELSE "AND")
        /\ ~HoldsLettersOr(OutsidePhrasesFrom(called.query, 0)) => called.result.logic = "AND"

\* a query with a field-scoped term and the word OR between two words
\* has come back with logic OR
C23_Witness ==
    /\ IsParseQueryCall
    /\ called.result.logic = "OR"
    /\ called.result.fieldQueries.title # <<>>
    /\ Len(called.result.fieldQueries.general) = 2

(***************************************************************************)
(* C24  parseQuery never fails                                             *)
(***************************************************************************)
IsSequence(x) == DOMAIN x = 1..Len(x)

IsParsedQuery(r) ==
    /\ DOMAIN r = {"quotedPhrases", "fieldQueries", "logic", "allTerms"}
    /\ DOMAIN r.fieldQueries = {"title", "description", "source", "general"}
    /\ IsSequence(r.quotedPhrases)
    /\ \A f \in DOMAIN r.fieldQueries : IsSequence(r.fieldQueries[f])
    /\ r.logic \in {"AND", "OR"}

\* the query with every field-scoped term taken out, leftmost first
RECURSIVE WithoutFieldTerms(_)
WithoutFieldTerms(string) ==
    IF fieldMatchStarts(string, 0) = {} THEN string
    ELSE WithoutFieldTerms(replaceFirst(string, fieldRegexExec(string, 0).text))

\* the words of the query that are neither in a quoted phrase nor in a
\* field-scoped term, the keywords AND and OR aside
OtherWords(query) ==
    {word \in Tokens(WithoutFieldTerms(OutsidePhrasesFrom(query, 0))) :
        toLowerCase(word) \notin {<<"a","n","d">>, <<"o","r">>}}

GeneralTermsHold(r, query) ==
    /\ \A word \in OtherWords(query) :
           \E k \in 1..Len(r.fieldQueries.general) : includes(r.fieldQueries.general[k], word)
    /\ \A k \in 1..Len(r.fieldQueries.general) : r.fieldQueries.general[k] # <<>>

\* C24: every call of parseQuery returns, whatever the string (unbalanced
\* quotes, empty quotes, a bare field: without a term, the empty string),
\* and what it returns is a ParsedQuery: quotedPhrases, fieldQueries with
\* title, description, source and general, and logic AND or OR; every word
\* that is neither in a quoted phrase nor in a field-scoped term is in a
\* general term, and no general term is empty
C24_ParseQueryNeverFails ==
    /\ (called.fn = "parseQuery") ~> IsParseQueryCall
    /\ [](IsParseQueryCall =>
             /\ IsParsedQuery(called.result)
             /\ GeneralTermsHold(called.result, called.query))

\* a query of a lone quote, a bare field: and a word has been parsed: no
\* phrase, no field term, all of it in one general term
C24_Witness ==
    /\ IsParseQueryCall
    /\ called.query = <<"\"", " ", "t","i","t","l","e",":", " ", "a">>
    /\ called.result.quotedPhrases = <<>>
    /\ called.result.fieldQueries.title = <<>>
    /\ called.result.fieldQueries.general = <<called.query>>

(***************************************************************************)
(* C22  the score as a sum                                                 *)
(***************************************************************************)
IsScoreCall == called.fn = "calculateRelevanceScore" /\ called.result # NoResult

\* the match of a term in field f of the item of the call
MatchIn(f, term) ==
    matchesTerm(toLowerCase(called.item[f]), term, called.useWordBoundary,
                called.fuzzyTolerance)

PhraseIn(f, phrase) == includes(toLowerCase(called.item[f]), toLowerCase(phrase))

\* in half points: 10 x weight for a phrase hit, with weights 3, 2, 1
PhraseAmount2 == [title |-> 60, description |-> 40, source |-> 20]

\* in half points: title 9 exact / 3 fuzzy, description 4 / 2, source 1 / 0.5
ExactAmount2 == [title |-> 18, description |-> 8, source |-> 2]
FuzzyAmount2 == [title |-> 6, description |-> 4, source |-> 1]

TermAmount2(f, term) ==
    IF ~MatchIn(f, term).matched THEN 0
    ELSE IF MatchIn(f, term).exact THEN ExactAmount2[f]
    ELSE FuzzyAmount2[f]

RECURSIVE SumOf(_)
SumOf(numbers) == IF numbers = <<>> THEN 0 ELSE Head(numbers) + SumOf(Tail(numbers))

\* the sum over the three fields
OverFields(Amount(_)) == Amount("title") + Amount("description") + Amount("source")

PhraseSum(phrases) ==
    SumOf([k \in 1..Len(phrases) |->
              LET Hit(f) == IF PhraseIn(f, phrases[k]) THEN PhraseAmount2[f] ELSE 0
              IN  OverFields(Hit)])

FieldTermSum(fieldQueries) ==
    LET OfField(f) == SumOf([k \in 1..Len(fieldQueries[f]) |-> TermAmount2(f, fieldQueries[f][k])])
    IN  OverFields(OfField)

GeneralTermSum(terms) ==
    SumOf([k \in 1..Len(terms) |->
              LET OfTerm(f) == TermAmount2(f, terms[k])
              IN  OverFields(OfTerm)])

\* no general term misses every field under AND
NoShortCircuit ==
    \/ called.parsedQuery.logic = "OR"
    \/ \A k \in 1..Len(called.parsedQuery.fieldQueries.general) :
           \E f \in {"title", "description", "source"} :
               MatchIn(f, called.parsedQuery.fieldQueries.general[k]).matched

\* C22: when no general term ends the scoring under AND, the score is the
\* sum of 10 x weight for every (quoted phrase, field) hit, of the amount of
\* the field for every field-scoped term that matches its field and of the
\* amount of the field for every (general term, field) match, the amounts
\* being title 9 exact / 3 fuzzy, description 4 / 2, source 1 / 0.5; a
\* general term that matches several fields counts once for each
C22_ScoreIsTheSum ==
    IsScoreCall /\ NoShortCircuit =>
        called.result.score =
            PhraseSum(called.parsedQuery.quotedPhrases)
                + FieldTermSum(called.parsedQuery.fieldQueries)
                + GeneralTermSum(called.parsedQuery.fieldQueries.general)

\* "maps" title:maps maps on an item with maps in title and description:
\* 30 + 20 for the phrase, 9 for the title term, 9 + 4 for the general term
C22_Witness ==
    /\ IsScoreCall
    /\ called.parsedQuery.quotedPhrases # <<>>
    /\ called.parsedQuery.fieldQueries.title # <<>>
    /\ called.parsedQuery.fieldQueries.general # <<>>
    /\ called.result.score = 144
    /\ called.result.matchedFields = <<"title", "description">>

(***************************************************************************)
(* C27  score and matchedFields                                            *)
(***************************************************************************)
\* some phrase, field-scoped term or general term of the query of the call
\* matches field f of its item
SomethingMatches(f) ==
    \/ \E k \in 1..Len(called.parsedQuery.quotedPhrases) :
           PhraseIn(f, called.parsedQuery.quotedPhrases[k])
    \/ \E k \in 1..Len(called.parsedQuery.fieldQueries[f]) :
           MatchIn(f, called.parsedQuery.fieldQueries[f][k]).matched
    \/ \E k \in 1..Len(called.parsedQuery.fieldQueries.general) :
           MatchIn(f, called.parsedQuery.fieldQueries.general[k]).matched

\* C27: in what calculateRelevanceScore returns, the score is above 0
\* exactly when matchedFields is not empty; matchedFields names no field
\* twice and only title, description and source; and a field is in
\* matchedFields only if some phrase, field-scoped term or general term
\* matched that field
C27_ScoreAndMatchedFields ==
    IsScoreCall =>
        LET fields == called.result.matchedFields
        IN  /\ called.result.score > 0 <=> fields # <<>>
            /\ \A i, j \in 1..Len(fields) : fields[i] = fields[j] => i = j
            /\ \A i \in 1..Len(fields) :
                   /\ fields[i] \in {"title", "description", "source"}
                   /\ SomethingMatches(fields[i])

\* a phrase and two terms have matched the title, which is named once, and
\* the description
C27_Witness ==
    /\ IsScoreCall
    /\ called.parsedQuery.quotedPhrases # <<>>
    /\ PhraseIn("title", called.parsedQuery.quotedPhrases[1])
    /\ called.parsedQuery.fieldQueries.title # <<>>
    /\ MatchIn("title", called.parsedQuery.fieldQueries.title[1]).matched
    /\ called.result.matchedFields = <<"title", "description">>
    /\ called.result.score > 0

(***************************************************************************)
(* C25  a field-scoped term is matched in its field only                   *)
(***************************************************************************)
\* the query with nothing but its terms scoped to field f
OnlyTermsOf(pq, f) ==
    [pq EXCEPT
        !.quotedPhrases = <<>>,
        !.fieldQueries = [EmptyFieldQueries EXCEPT ![f] = pq.fieldQueries[f]]]

\* the query without its terms scoped to field f
WithoutTermsOf(pq, f) == [pq EXCEPT !.fieldQueries[f] = <<>>]

ScoreOf(item, pq) ==
    calculateRelevanceScore(item, pq, called.useWordBoundary, called.fuzzyTolerance)

\* what the terms scoped to f add to the score of an item
AddedByTermsOf(item, pq, f) ==
    ScoreOf(item, pq).score - ScoreOf(item, WithoutTermsOf(pq, f)).score

\* the items that differ from the item of the call in the other two fields only
SameIn(f) == {item \in ScoreItems : item[f] = called.item[f]}

CannotShortCircuit(pq) ==
    pq.logic = "OR" \/ pq.fieldQueries.general = <<>>

\* C25: the terms scoped to a field are matched in that field only: with
\* any other content of the other two fields, the terms scoped to field f
\* match the same, score the same and put f in matchedFields the same, by
\* themselves and within the query
C25_FieldTermsReadTheirFieldOnly ==
    IsScoreCall =>
        \A f \in {"title", "description", "source"} :
            called.parsedQuery.fieldQueries[f] # <<>> =>
                \A item \in SameIn(f) :
                    /\ ScoreOf(item, OnlyTermsOf(called.parsedQuery, f))
                           = ScoreOf(called.item, OnlyTermsOf(called.parsedQuery, f))
                    /\ CannotShortCircuit(called.parsedQuery) =>
                           AddedByTermsOf(item, called.parsedQuery, f)
                               = AddedByTermsOf(called.item, called.parsedQuery, f)

\* title:gis on an item with gis in its title and, differently, in its
\* description: the title alone is matched
C25_Witness ==
    /\ IsScoreCall
    /\ called.parsedQuery = parseQuery(<<"t","i","t","l","e",":","g","i","s">>)
    /\ called.item.title = <<"o","l","d"," ","G","i","s">>
    /\ called.item.description = <<"G","I","S"," ","m","a","p","s">>
    /\ called.result.matchedFields = <<"title">>
    /\ called.result.score = 18

(***************************************************************************)
(* C30  the LRUCache                                                       *)
(***************************************************************************)
KeysIn(cache) == {cache[i].key : i \in 1..Len(cache)}

ValueIn(cache, key) == cache[CHOOSE i \in 1..Len(cache) : cache[i].key = key].value

\* the calls of the log that use a key: a set, or a get that found it
UsesOf(key, log) ==
    {i \in 1..Len(log) :
        /\ log[i].key = key
        /\ log[i].method = "set" \/ (log[i].method = "get" /\ log[i].returned # null)}

\* the key of the cache whose latest use is the oldest
LeastRecentlyUsed(cache, log) ==
    CHOOSE key \in KeysIn(cache) :
        \A other \in KeysIn(cache) : SetMax(UsesOf(key, log)) <= SetMax(UsesOf(other, log))

\* the value of the latest set of the key
LastSet(key, log) ==
    log[SetMax({i \in 1..Len(log) : log[i].key = key /\ log[i].method = "set"})].value

SameValues(keys) == \A key \in keys : ValueIn(lruCache', key) = ValueIn(lruCache, key)

\* what the call that a step appends to the log has done
LruCallContract ==
    lruLog' # lruLog =>
        LET call == lruLog'[Len(lruLog')]
            present == call.key \in KeysIn(lruCache)
            full == Len(lruCache) >= lruMaxSize
        IN  /\ call.method = "set" /\ ~present /\ full =>
                   KeysIn(lruCache') =
                       (KeysIn(lruCache) \ {LeastRecentlyUsed(lruCache, lruLog)}) \cup {call.key}
            /\ call.method = "set" /\ (present \/ ~full) =>
                   KeysIn(lruCache') = KeysIn(lruCache) \cup {call.key}
            /\ call.method = "set" =>
                   /\ ValueIn(lruCache', call.key) = call.value
                   /\ SameValues(KeysIn(lruCache') \ {call.key})
            /\ call.method = "get" /\ present =>
                   /\ call.returned = LastSet(call.key, lruLog)
                   /\ KeysIn(lruCache') = KeysIn(lruCache)
                   /\ SameValues(KeysIn(lruCache))
            /\ call.method = "get" /\ ~present =>
                   call.returned = null /\ lruCache' = lruCache
            /\ call.method = "has" =>
                   call.returned = present /\ lruCache' = lruCache
            /\ call.method = "size" =>
                   call.returned <= lruMaxSize /\ lruCache' = lruCache

\* C30: for an LRUCache with maxSize >= 1 and any sequence of get, set, has
\* and clear calls, size() never exceeds maxSize; a set of a new key on a
\* full cache evicts exactly the key whose latest set or successful get is
\* the oldest; a get of a present key returns the value last set for it and
\* counts as its latest use; has changes nothing, recency included; a get
\* of an absent key returns null and changes nothing
C30_LruContract == [](lruSize(lruCache) <= lruMaxSize) /\ [][LruCallContract]_vars

\* set k, set k', get k, set k'' on a cache of two: the key set second
\* has been evicted, not the one set first
C30_Witness ==
    /\ lruMaxSize = 2
    /\ Len(lruLog) = 4
    /\ lruLog[1].method = "set" /\ lruLog[2].method = "set"
    /\ lruLog[3].method = "get" /\ lruLog[3].key = lruLog[1].key
    /\ lruLog[4].method = "set"
    /\ Cardinality({lruLog[1].key, lruLog[2].key, lruLog[4].key}) = 3
    /\ KeysIn(lruCache) = {lruLog[1].key, lruLog[4].key}

(***************************************************************************)
(* C26  the item cache against the XML                                     *)
(***************************************************************************)
\* the writes that the latest read came after
SeenLog == SubSeq(writeLog, 1, lastRead.seen)

WritesOf(file, feedUrl) ==
    {i \in 1..Len(SeenLog) : SeenLog[i].file = file /\ SeenLog[i].feedUrl = feedUrl}

\* an XML write of the feed happened after its latest writeItemCache
XmlWrittenAfterItems(feedUrl) ==
    \E i \in WritesOf("xml", feedUrl) : i > SetMax(WritesOf("items", feedUrl))

\* C26: readItemCache returns null for a feed without an item-cache file
\* and for one whose file cannot be parsed; after any sequence of
\* writeItemCache calls and XML writes it returns the items of the latest
\* writeItemCache exactly when no XML write happened after that write (and
\* null otherwise), so never items older than the current XML
C26_ItemCacheFreshness ==
    lastRead.feedUrl # null =>
        IF WritesOf("items", lastRead.feedUrl) = {}
        THEN lastRead.isNull
        ELSE IF XmlWrittenAfterItems(lastRead.feedUrl)
        THEN lastRead.isNull
        ELSE /\ ~lastRead.isNull
             /\ lastRead.items = SeenLog[SetMax(WritesOf("items", lastRead.feedUrl))].items

(***************************************************************************)
(* C29  sessions under connections that share a sessionId                  *)
(***************************************************************************)
OpenConnections == {c \in 1..Len(connections) : connections[c].open}

OpenSessions == {connections[c].sessionId : c \in OpenConnections}

\* the session has an entry, bound to the transport of an open connection
\* of the session
HasItsEntry(sessionId) ==
    /\ mapHas(activeTransports, sessionId)
    /\ mapGet(activeTransports, sessionId).transport \in OpenConnections
    /\ connections[mapGet(activeTransports, sessionId).transport].sessionId = sessionId

\* the step closes connection c
Closes(c) == connections[c].open /\ ~connections'[c].open

\* the entries bound to other transports than c are left as they were
RemovesOnlyEntryOf(c) ==
    \A i \in 1..Len(activeTransports) :
        activeTransports[i].transport # c
            => \E j \in 1..Len(activeTransports') : activeTransports'[j] = activeTransports[i]

\* the step answers a POST that names a session with an open connection
PostsForOpenSession ==
    /\ connections' = connections
    /\ activeTransports' = activeTransports
    /\ handed' # handed \/ lastPost' # lastPost
    /\ lastPost'.sessionId \in OpenSessions

RoutedToItsTransport ==
    /\ lastPost'.handedTo \in OpenConnections
    /\ connections[lastPost'.handedTo].sessionId = lastPost'.sessionId
    /\ handed' = Append(handed, [transport |-> lastPost'.handedTo,
                                 endpoint |-> lastPost'.endpoint])

\* C29: under any interleaving of SSE connection establishments and
\* closes, including two connections opened with the same client-supplied
\* sessionId, a session's entry stays in activeTransports, bound to its own
\* transport, for as long as its connection is open, and closing one
\* connection removes only that connection's entry; so a message posted
\* for an open session is always routed to that session's transport
C29_SessionsKeepTheirEntries ==
    /\ [](\A sessionId \in OpenSessions : HasItsEntry(sessionId))
    /\ [][/\ \A c \in 1..Len(connections) : Closes(c) => RemovesOnlyEntryOf(c)
          /\ PostsForOpenSession => RoutedToItsTransport]_vars

====
